---- MODULE Spec2Model ----
(***************************************************************************)
(* A model of the Manga-Server library engine: the staging scanner, the    *)
(* import pipeline, the file mover, the archive reader and the HTTP        *)
(* handlers that drive them.                                               *)
(*                                                                         *)
(* Text is modelled character by character: a string is a sequence of      *)
(* one-character strings, a path is a sequence of segments.  None and ""   *)
(* are both the empty sequence wherever the code only tests truthiness.    *)
(***************************************************************************)
EXTENDS Integers, Sequences, FiniteSets, TLC

(***************************************************************************)
(* Bounds of the model.                                                    *)
(***************************************************************************)
MaxGalleryId == 1
MaxStagedId == 1
MaxSeriesId == 2
MaxPage == 4

(***************************************************************************)
(* Characters and the str methods the code uses.                           *)
(***************************************************************************)
\* The characters of the model in increasing code point order (what
\* Python's sorted() compares).
AsciiOrder ==
  << " ", "\"", "'", "*", "-", ".", "/", "0", "1", "2", ":", "<", ">", "?",
     "A", "B", "C", "G", "J", "N", "P", "U", "Z", "[", "\\", "]", "_",
     "a", "b", "c", "e", "f", "g", "i", "j", "k", "n", "o", "p", "s", "t", "u", "w", "x", "z", "|" >>

Chars == { AsciiOrder[i] : i \in 1..Len(AsciiOrder) }

Ord(c) == CHOOSE i \in 1..Len(AsciiOrder) : AsciiOrder[i] = c

UpperChars == << "A", "B", "C", "G", "J", "N", "P", "U", "Z" >>
LowerChars == << "a", "b", "c", "g", "j", "n", "p", "u", "z" >>

IsAlpha(c) == c \in { "A", "B", "C", "G", "J", "N", "P", "U", "Z",
                      "a", "b", "c", "e", "f", "g", "i", "j", "k", "n", "o", "p",
                      "s", "t", "u", "w", "x", "z" }
IsDigit(c) == c \in { "0", "1", "2" }
IsSpace(c) == c = " "

\* str.lower() on one character
LowerChar(c) ==
  IF \E i \in 1..Len(UpperChars) : UpperChars[i] = c
  THEN LowerChars[CHOOSE i \in 1..Len(UpperChars) : UpperChars[i] = c]
  ELSE c

\* str.lower()
Lower(s) == [ i \in 1..Len(s) |-> LowerChar(s[i]) ]

\* str.endswith(suffix)
EndsWith(s, suf) ==
  /\ Len(s) >= Len(suf)
  /\ SubSeq(s, Len(s) - Len(suf) + 1, Len(s)) = suf

\* str.strip(): whitespace removed from both ends
RECURSIVE LStrip(_)
LStrip(s) == IF s # << >> /\ IsSpace(Head(s)) THEN LStrip(Tail(s)) ELSE s

RECURSIVE RStrip(_)
RStrip(s) ==
  IF s # << >> /\ IsSpace(s[Len(s)]) THEN RStrip(SubSeq(s, 1, Len(s) - 1)) ELSE s

Strip(s) == RStrip(LStrip(s))

\* Python's < on two strings: code point order, a proper prefix first
RECURSIVE StrLess(_, _)
StrLess(a, b) ==
  IF a = << >> THEN b # << >>
  ELSE IF b = << >> THEN FALSE
  ELSE IF Head(a) = Head(b) THEN StrLess(Tail(a), Tail(b))
  ELSE Ord(Head(a)) < Ord(Head(b))

\* the list as the archive gives it
Unsorted(l) == l

\* sorted(list of strings)
RECURSIVE Insert(_, _)
Insert(x, sorted) ==
  IF sorted = << >> THEN << x >>
  ELSE IF StrLess(x, Head(sorted)) THEN << x >> \o sorted
  ELSE << Head(sorted) >> \o Insert(x, Tail(sorted))

RECURSIVE Sorted(_)
Sorted(l) == IF l = << >> THEN << >> ELSE Insert(Head(l), Sorted(Tail(l)))

(***************************************************************************)
(* The two sanitizers.                                                     *)
(***************************************************************************)
\* importer.py line 25: keep letters, digits, space, '-' and '_', then strip
ImporterKeeps(c) == IsAlpha(c) \/ IsDigit(c) \/ c \in { " ", "-", "_" }

ImporterSanitize(name) == Strip(SelectSeq(name, ImporterKeeps))

\* main.py sanitize_filename
NotQuote(c) == c \notin { "\"", "'" }
NotForbidden(c) == c \notin { "<", ">", ":", "\"", "/", "\\", "|", "?", "*" }
Unknown == << "U", "n", "k", "n", "o", "w", "n" >>

sanitize_filename(name) ==
  IF name = << >> THEN Unknown
  ELSE LET s1 == SelectSeq(Strip(name), NotQuote)
           s2 == Strip(SelectSeq(s1, NotForbidden))
       IN  IF s2 = << >> THEN Unknown ELSE s2

(***************************************************************************)
(* Paths.  A path is the sequence of its segments below the directory the  *)
(* server runs in; "." and ".." segments are kept as written until the     *)
(* operating system (or os.path.abspath) resolves them.                    *)
(***************************************************************************)
DotDot == << ".", "." >>
Dot == << "." >>

DATA_DIR == << << "d", "a", "t", "a" >> >>
INPUT_DIR == DATA_DIR \o << << "i", "n", "p", "u", "t" >> >>
LIBRARY_DIR == DATA_DIR \o << << "l", "i", "b", "r", "a", "r", "y" >> >>
THUMBNAIL_DIR == DATA_DIR \o << << "t", "h", "u", "m", "b", "n", "a", "i", "l", "s" >> >>
LOG_DIR == DATA_DIR \o << << "l", "o", "g", "s" >> >>
BACKUP_DIR == DATA_DIR \o << << "b", "a", "c", "k", "u", "p", "s" >> >>

\* os.path.join(path, segment): an empty segment adds nothing to the path
PathJoin(p, seg) == IF seg = << >> THEN p ELSE Append(p, seg)

\* os.path.dirname and os.path.basename
Dirname(p) == IF p = << >> THEN << >> ELSE SubSeq(p, 1, Len(p) - 1)
Basename(p) == IF p = << >> THEN << >> ELSE p[Len(p)]

\* os.path.abspath: "." dropped, ".." removes the segment before it
RECURSIVE NormInto(_, _)
NormInto(acc, p) ==
  IF p = << >> THEN acc
  ELSE IF Head(p) = Dot THEN NormInto(acc, Tail(p))
  ELSE IF Head(p) = DotDot THEN NormInto(Dirname(acc), Tail(p))
  ELSE NormInto(Append(acc, Head(p)), Tail(p))

Abspath(p) == NormInto(<< >>, p)

\* the directories on the way to p, p included
Prefixes(p) == { SubSeq(p, 1, n) : n \in 1..Len(p) }

IsPrefix(p, q) == Len(p) <= Len(q) /\ SubSeq(q, 1, Len(p)) = p

(***************************************************************************)
(* Archives.  An archive is what zipfile sees of it: whether it opens,     *)
(* its namelist, the entries whose bytes cannot be read, and whether the   *)
(* first image decodes.                                                    *)
(***************************************************************************)
N_p2jpg == << "p", "2", ".", "j", "p", "g" >>
N_p10jpg == << "p", "1", "0", ".", "j", "p", "g" >>
N_APNG == << "A", ".", "P", "N", "G" >>
N_txt == << "n", ".", "t", "x", "t" >>
N_webp == << "b", ".", "w", "e", "b", "p" >>
N_jpeg == << "e", ".", "j", "p", "e", "g" >>

ArchiveOf ==
  << \* 1: three pages and a text file
     [ openable |-> TRUE, names |-> << N_p2jpg, N_p10jpg, N_txt, N_APNG >>,
       unreadable |-> { }, decodable |-> TRUE ],
     \* 2: not a zip file
     [ openable |-> FALSE, names |-> << >>, unreadable |-> { }, decodable |-> FALSE ],
     \* 3: a zip file without images
     [ openable |-> TRUE, names |-> << N_txt >>, unreadable |-> { }, decodable |-> TRUE ],
     \* 4: the first page's bytes cannot be read (bad CRC)
     [ openable |-> TRUE, names |-> << N_p2jpg, N_p10jpg >>,
       unreadable |-> { N_p10jpg }, decodable |-> TRUE ],
     \* 5: the first page is not an image PIL can decode
     [ openable |-> TRUE, names |-> << N_jpeg, N_webp >>,
       unreadable |-> { }, decodable |-> FALSE ] >>

ArchiveIds == 1..Len(ArchiveOf)

\* the '.png', '.jpg', '.jpeg', '.webp' tuple of importer.py, reader.py and scanner.py
ImageExtensions ==
  { << ".", "p", "n", "g" >>, << ".", "j", "p", "g" >>,
    << ".", "j", "p", "e", "g" >>, << ".", "w", "e", "b", "p" >> }

IsImageName(f) == \E ext \in ImageExtensions : EndsWith(Lower(f), ext)

\* sorted([f for f in z.namelist() if f.lower().endswith(...)])
ImageEntries(a) == Sorted(SelectSeq(ArchiveOf[a].names, IsImageName))

\* z.read(name): the stored bytes of the entry
EntryBytes(a, name) == [ archive |-> a, entry |-> name ]

(***************************************************************************)
(* State.                                                                  *)
(***************************************************************************)
VARIABLES
  dataDirAbs,  \* whether DATA_DIR (the environment's, default "./data") is absolute
  fs,          \* the disk: files (absolute path -> archive), dirs (the
               \* directories) and thumbs (the ids with a thumbnails/<id>.jpg)
  db,          \* the committed rows: staged, galleries (each with its
               \* gallery_tags), series, categories, tags
  result,      \* the response of the last request
  inflight,    \* for each worker thread, what the request it is running has
               \* read and done so far (None when it runs none)
  clock,       \* int(time.time()) at the last wake of the backup scheduler
  watchdog     \* the wifi watchdog process at its time.sleep: fail_count and
               \* what each pass of its loop has done so far

vars == << dataDirAbs, fs, db, result, inflight, clock, watchdog >>

(***************************************************************************)
(* The file system.                                                        *)
(***************************************************************************)
FileAt(d, p) == Abspath(p) \in DOMAIN d.files
DirAt(d, p) == Abspath(p) \in d.dirs

\* every ".." of the path is reached through a directory that exists
Resolvable(d, p) ==
  \A n \in 1..Len(p) : p[n] = DotDot => Abspath(SubSeq(p, 1, n - 1)) \in d.dirs

\* os.path.exists
PathExists(d, p) == Resolvable(d, p) /\ (FileAt(d, p) \/ DirAt(d, p))

\* not os.listdir(dir); manga.db and the logs lie in DATA_DIR
DirEmpty(d, dir) ==
  /\ \A q \in DOMAIN d.files : Dirname(q) # dir
  /\ \A q \in d.dirs : q = << >> \/ Dirname(q) # dir
  /\ dir # DATA_DIR

\* os.makedirs(dir): each head of dir is made before dir itself, so a head
\* that a later ".." leaves again is made too
MakeDirs(d, dir) ==
  [ d EXCEPT !.dirs = @ \cup UNION { Prefixes(Abspath(SubSeq(dir, 1, n))) : n \in 1..Len(dir) } ]

\* os.makedirs(dir) of a dir that does not exist raises FileExistsError when
\* dir ends in "..": the heads are made, and mkdir then finds dir there
MakeDirsRaises(dir) == dir # << >> /\ Basename(dir) = DotDot

WithFile(f, p, a) == [ q \in DOMAIN f \cup { p } |-> IF q = p THEN a ELSE f[q] ]
WithoutFile(f, p) == [ q \in DOMAIN f \ { p } |-> f[q] ]

\* shutil.move(src, dst) of a file that exists: into dst when dst is a
\* directory, over dst otherwise
MoveTarget(d, src, dst) ==
  IF DirAt(d, dst) THEN PathJoin(Abspath(dst), Basename(src)) ELSE Abspath(dst)

MoveFile(d, src, dst) ==
  [ d EXCEPT !.files =
      WithFile(WithoutFile(@, Abspath(src)), MoveTarget(d, src, dst), @[Abspath(src)]) ]

\* a move that refuses a target that is taken
MoveRefusesTaken(d, src, dst, moveOk) ==
  \/ ~moveOk
  \/ ~(Resolvable(d, src) /\ FileAt(d, src))
  \/ ~Resolvable(d, dst)
  \/ Dirname(MoveTarget(d, src, dst)) \notin d.dirs
  \/ MoveTarget(d, src, dst) \in DOMAIN d.files \cup d.dirs

\* shutil.move raises: no source, the environment refuses (moveOk), the
\* target directory is gone, or dst is a directory that holds the name
MoveRaises(d, src, dst, moveOk) ==
  \/ ~moveOk
  \/ ~(Resolvable(d, src) /\ FileAt(d, src))
  \/ ~Resolvable(d, dst)
  \/ Dirname(MoveTarget(d, src, dst)) \notin d.dirs
  \/ (DirAt(d, dst) /\ MoveTarget(d, src, dst) \in DOMAIN d.files \cup d.dirs)

(***************************************************************************)
(* Rows.  SQLite gives a new row the largest id of its table plus one.     *)
(***************************************************************************)
Max(S) == CHOOSE x \in S : \A y \in S : y <= x

NextId(rows) == IF rows = { } THEN 1 ELSE Max({ r.id : r \in rows }) + 1

\* query(...).filter(id == i).first() and its emptiness
HasId(rows, i) == \E r \in rows : r.id = i
ById(rows, i) == CHOOSE r \in rows : r.id = i

HasName(rows, n) == \E r \in rows : r.name = n
ByName(rows, n) == CHOOSE r \in rows : r.name = n

\* the response of a handler: the HTTP status, the exception that ended it
\* ("" when none did), the detail of the error and the value returned
Response(op, status, exc, detail, value) ==
  [ op |-> op, status |-> status, exc |-> exc, detail |-> detail, value |-> value ]

(***************************************************************************)
(* scanner.py: scan_input_directory, and the upload that feeds it.         *)
(***************************************************************************)
\* an Optional value: None is << >>, a value v is << v >>
None == << >>
Some(v) == << v >>

\* str.find(c), counted from 1; 0 when c is not in s
Find(s, c) ==
  IF \E i \in 1..Len(s) : s[i] = c
  THEN CHOOSE i \in 1..Len(s) : s[i] = c /\ \A j \in 1..(i - 1) : s[j] # c
  ELSE 0

\* str.replace(sub, "")
RECURSIVE RemoveAll(_, _)
RemoveAll(s, sub) ==
  IF Len(s) < Len(sub) THEN s
  ELSE IF SubSeq(s, 1, Len(sub)) = sub THEN RemoveAll(SubSeq(s, Len(sub) + 1, Len(s)), sub)
  ELSE << Head(s) >> \o RemoveAll(Tail(s), sub)

\* os.path.splitext(name)[0]: cut at the last dot that follows a character
\* other than a dot
SplitextRoot(s) ==
  LET dots == { i \in 1..Len(s) : s[i] = "." }
      last == Max(dots)
  IN  IF dots # { } /\ \E j \in 1..(last - 1) : s[j] # "."
      THEN SubSeq(s, 1, last - 1)
      ELSE s

ExtZip == << ".", "z", "i", "p" >>
ExtCbz == << ".", "c", "b", "z" >>

\* the test without lower(): only the lower-case extensions count
IsArchiveNameCaseSensitive(f) == EndsWith(f, ExtZip) \/ EndsWith(f, ExtCbz)

\* f.lower().endswith(".zip") or f.lower().endswith(".cbz")
IsArchiveName(f) == EndsWith(Lower(f), ExtZip) \/ EndsWith(Lower(f), ExtCbz)

\* the guess of lines 29-41
SuggestedArtist(filename) ==
  IF Find(filename, "]") > 0 /\ Find(filename, "[") > 0
  THEN Some(SubSeq(filename, Find(filename, "[") + 1, Find(filename, "]") - 1))
  ELSE None

SuggestedTitle(filename) ==
  IF Find(filename, "]") > 0 /\ Find(filename, "[") > 0
  THEN Strip(RemoveAll(RemoveAll(SubSeq(filename, Find(filename, "]") + 1, Len(filename)),
                                 ExtZip), ExtCbz))
  ELSE SplitextRoot(filename)

\* os.listdir(input_dir), filtered
PhysicalFiles(d) ==
  { Basename(q) : q \in { q \in DOMAIN d.files : Dirname(q) = INPUT_DIR /\ IsArchiveName(Basename(q)) } }

\* the orders in which os.listdir may give a set of names
Orders(S) ==
  { o \in [ 1..Cardinality(S) -> S ] : \A i, j \in 1..Cardinality(S) : o[i] = o[j] => i = j }

StagedRow(id, filename) ==
  [ id |-> id, filename |-> filename, path |-> PathJoin(INPUT_DIR, filename),
    suggested_title |-> SuggestedTitle(filename),
    suggested_artist |-> SuggestedArtist(filename) ]

\* a scan that stages every listed file anew and forgets the rows it had
ScannedRowsAnew(rows, physical, order) ==
  { StagedRow(NextId(rows) + i - 1, order[i]) : i \in 1..Len(order) }
  \cup { StagedRow(NextId(rows) + Len(order) + r.id, r.filename) : r \in { r \in rows : r.filename \in physical } }

\* the table after a scan that met the new files in the order `order`
ScannedRows(rows, physical, order) ==
  { r \in rows : r.filename \in physical }
  \cup { StagedRow(NextId(rows) + i - 1, order[i]) : i \in 1..Len(order) }

scan_input_directory ==
  \E order \in Orders(PhysicalFiles(fs) \ { r.filename : r \in db.staged }) :
    /\ db' = [ db EXCEPT !.staged = ScannedRows(@, PhysicalFiles(fs), order) ]
    /\ result' = Response("scan", 200, "", "",
                          << Len(order), Cardinality(PhysicalFiles(fs)) >>)
    /\ UNCHANGED << dataDirAbs, watchdog, clock, inflight, fs >>

\* POST /api/upload: the file is written into the input directory
upload_gallery_api(filename, archive) ==
  IF ~IsArchiveName(filename)
  THEN /\ result' = Response("upload", 400, "HTTPException", "Zip/CBZ only", << >>)
       /\ UNCHANGED << dataDirAbs, watchdog, clock, inflight, fs, db >>
  ELSE /\ fs' = [ fs EXCEPT !.files = WithFile(@, PathJoin(INPUT_DIR, filename), archive) ]
       /\ result' = Response("upload", 200, "", "", << >>)
       /\ UNCHANGED << dataDirAbs, watchdog, clock, inflight, db >>

\* the user deletes a file of the input directory by hand (scanner.py line 52)
UserDeletesInputFile(filename) ==
  /\ PathJoin(INPUT_DIR, filename) \in DOMAIN fs.files
  /\ fs' = [ fs EXCEPT !.files = WithoutFile(@, PathJoin(INPUT_DIR, filename)) ]
  /\ UNCHANGED << dataDirAbs, watchdog, clock, inflight, db, result >>

(***************************************************************************)
(* importer.py: import_gallery, and its handler import_comic.              *)
(*                                                                         *)
(* A request object is [artist, series, hasCategory, category, tags].      *)
(* schemas.ImportRequest declares no category field, so the objects the    *)
(* HTTP layer builds have hasCategory = FALSE and reading .category on     *)
(* them raises AttributeError.  title, description and direction are only  *)
(* copied into the row and are left out.                                   *)
(***************************************************************************)
GalleryRow(id, filename, path, artist, series_id, category_id, tagIds) ==
  [ id |-> id, filename |-> filename, path |-> path, artist |-> artist,
    status |-> "New", pages_read |-> 0, pages_total |-> 0, sort_order |-> 0,
    series_id |-> series_id, category_id |-> category_id, tags |-> tagIds ]

SeriesRow(id, name) ==
  [ id |-> id, name |-> name, thumbnail_url |-> None, category_id |-> 0, tags |-> << >> ]

NamedRow(id, name) == [ id |-> id, name |-> name ]

\* find the row of that name or add one (and flush): the table afterwards
\* and the id; no name gives no row and id 0 (None)
FoundOrCreated(rows, name, new) ==
  IF name = << >> \/ HasName(rows, name) THEN rows ELSE rows \cup { new }

IdOfName(rows, name) == IF name = << >> THEN 0 ELSE ByName(rows, name).id

\* the Tag objects the tag loop adds to the session: one for every name the
\* query does not find (autoflush is off, so not the ones added before)
PendingTags(tagRows, names) == SelectSeq(names, LAMBDA n : ~HasName(tagRows, n))

\* the flush inserts them; two of one name break UNIQUE(tags.name)
FlushRaises(pending) ==
  \E i, j \in 1..Len(pending) : i # j /\ pending[i] = pending[j]

TagsFlushed(tagRows, pending) ==
  tagRows \cup { NamedRow(NextId(tagRows) + i - 1, pending[i]) : i \in 1..Len(pending) }

TagIds(tagRows, names) == [ i \in 1..Len(names) |-> ByName(tagRows, names[i]).id ]

\* importer.py lines 25-32
ImportDestFolder(meta) == PathJoin(LIBRARY_DIR, ImporterSanitize(meta.artist))
ImportDestPath(meta, source_path) == PathJoin(ImportDestFolder(meta), Basename(source_path))

\* a rollback that keeps what the session flushed
RollbackKeepsFlushed(committed, pending) == pending

\* db.rollback(): the flushed rows of the session (pending) are dropped and
\* the committed rows (committed) stay
Rollback(committed, pending) == committed

\* a lookup failure reported as the failure of the move
StagedNotFoundAsMoveFailure(d, b) ==
  [ fs |-> d, db |-> b, exc |-> "IOError", detail |-> "Failed to move file", gallery |-> << >> ]

\* lines 17-19: raise ValueError("Staged file not found")
StagedNotFound(d, b) ==
  [ fs |-> d, db |-> b, exc |-> "ValueError", detail |-> "Staged file not found", gallery |-> << >> ]

\* lines 86-89: db.rollback() and raise IOError("Failed to move file: ...")
MoveFailed(d, committed, pending) ==
  [ fs |-> d, db |-> Rollback(committed, pending), exc |-> "IOError",
    detail |-> "Failed to move file", gallery |-> << >> ]

\* a count of every entry of the archive, images or not
PagesTotalOfAllEntries(d, dest_path) ==
  IF ~(Abspath(dest_path) \in DOMAIN d.files /\ ArchiveOf[d.files[Abspath(dest_path)]].openable) THEN 0
  ELSE Len(ArchiveOf[d.files[Abspath(dest_path)]].names)

\* a thumbnail written without decoding the page
ThumbnailWithoutDecoding(d, dest_path, thumbOk) ==
  /\ Abspath(dest_path) \in DOMAIN d.files
  /\ ArchiveOf[d.files[Abspath(dest_path)]].openable
  /\ ImageEntries(d.files[Abspath(dest_path)]) # << >>

\* step 7: the page count and whether thumbnails/<id>.jpg is written
PagesTotal(d, dest_path) ==
  IF ~(FileAt(d, dest_path) /\ ArchiveOf[d.files[Abspath(dest_path)]].openable) THEN 0
  ELSE Len(ImageEntries(d.files[Abspath(dest_path)]))

ThumbnailWritten(d, dest_path, thumbOk) ==
  /\ FileAt(d, dest_path)
  /\ LET a == d.files[Abspath(dest_path)]
     IN  /\ ArchiveOf[a].openable
         /\ ImageEntries(a) # << >>
         /\ ImageEntries(a)[1] \notin ArchiveOf[a].unreadable
         /\ ArchiveOf[a].decodable
         /\ thumbOk

\* import_gallery: the disk and the rows it leaves, the exception that
\* ended it ("" for none) and the gallery it returns
import_gallery(d, b, staged_id, meta, moveOk, thumbOk) ==
  IF ~HasId(b.staged, staged_id)
  THEN StagedNotFound(d, b)
  ELSE
    LET staged_file == ById(b.staged, staged_id)
        d1 == MakeDirs(d, ImportDestFolder(meta))
        source_path == staged_file.path
        dest_path == ImportDestPath(meta, source_path)
        series1 == FoundOrCreated(b.series, meta.series, SeriesRow(NextId(b.series), meta.series))
    IN
    IF ~meta.hasCategory
    THEN [ fs |-> d1, db |-> b, exc |-> "AttributeError",
           detail |-> "'ImportRequest' object has no attribute 'category'", gallery |-> None ]
    ELSE
      LET cats1 == FoundOrCreated(b.categories, meta.category, NamedRow(NextId(b.categories), meta.category))
          pending == PendingTags(b.tags, meta.tags)
          tags1 == TagsFlushed(b.tags, pending)
      IN
      IF FlushRaises(pending)
      THEN [ fs |-> d1, db |-> b, exc |-> "IntegrityError",
             detail |-> "UNIQUE constraint failed: tags.name", gallery |-> None ]
      ELSE
        LET new_gallery ==
              GalleryRow(NextId(b.galleries), Basename(source_path), dest_path, meta.artist,
                         IdOfName(series1, meta.series), IdOfName(cats1, meta.category),
                         TagIds(tags1, meta.tags))
            b1 == [ b EXCEPT !.series = series1, !.categories = cats1, !.tags = tags1,
                             !.galleries = @ \cup { new_gallery } ]
        IN
        IF MoveRaises(d1, source_path, dest_path, moveOk)
        THEN MoveFailed(d1, b, b1)
        ELSE
          LET d2 == MoveFile(d1, source_path, dest_path)
              counted == [ new_gallery EXCEPT !.pages_total = PagesTotal(d2, dest_path) ]
              d3 == IF ThumbnailWritten(d2, dest_path, thumbOk)
                    THEN [ d2 EXCEPT !.thumbs = @ \cup { new_gallery.id } ]
                    ELSE d2
          IN  [ fs |-> d3,
                db |-> [ b1 EXCEPT !.galleries = b.galleries \cup { counted },
                                   !.staged = @ \ { staged_file } ],
                exc |-> "", detail |-> "", gallery |-> Some(counted) ]

\* POST /api/import/{staged_id}: every exception becomes a 500 whose detail
\* is the exception's text
import_comic(staged_id, request, moveOk, thumbOk) ==
  LET out == import_gallery(fs, db, staged_id, request, moveOk, thumbOk)
  IN  /\ fs' = out.fs
      /\ db' = out.db
      /\ result' = IF out.exc = ""
                   THEN Response("import", 200, "", "", << out.gallery[1].id >>)
                   ELSE Response("import", 500, out.exc, out.detail, << >>)
      /\ UNCHANGED << dataDirAbs, watchdog, clock, inflight >>

(***************************************************************************)
(* reader.py: get_page_image, and its handler read_page_image.             *)
(***************************************************************************)
\* what the try block of lines 17-30 raises, "" when it returns the bytes
ReadRaises(a, page_num) ==
  IF ~ArchiveOf[a].openable THEN "BadZipFile"
  ELSE IF page_num < 1 \/ page_num > Len(ImageEntries(a)) THEN "HTTPException 404 Page not found"
  ELSE IF ImageEntries(a)[page_num] \in ArchiveOf[a].unreadable THEN "BadZipFile"
  ELSE ""

\* lines 32-34: except Exception catches whatever the block raised, the
\* HTTPException of line 26 included, and raises the 500
ReaderError(raised) ==
  Response("read", 500, "HTTPException", "Error reading gallery archive", << >>)

\* lines 9-10
GalleryNotFound(gallery_id) ==
  Response("read", 404, "HTTPException", "Gallery not found", << >>)

\* the missing file reported as the missing row is
GalleryFileMissingAsNotFound(path) == GalleryNotFound(0)

\* lines 13-14
GalleryFileMissing(path) ==
  Response("read", 404, "HTTPException", "Gallery file missing on disk", << >>)

get_page_image(d, b, gallery_id, page_num) ==
  IF ~HasId(b.galleries, gallery_id)
  THEN GalleryNotFound(gallery_id)
  ELSE
    LET path == ById(b.galleries, gallery_id).path
    IN
    IF ~PathExists(d, path)
    THEN GalleryFileMissing(path)
    ELSE IF ~FileAt(d, path)
    THEN ReaderError("IsADirectoryError")
    ELSE
      LET a == d.files[Abspath(path)]
      IN  IF ReadRaises(a, page_num) # ""
          THEN ReaderError(ReadRaises(a, page_num))
          ELSE Response("read", 200, "", "", << EntryBytes(a, ImageEntries(a)[page_num]) >>)

\* GET /api/read/{gallery_id}/{page}
read_page_image(gallery_id, page) ==
  /\ result' = get_page_image(fs, db, gallery_id, page)
  /\ UNCHANGED << dataDirAbs, watchdog, clock, inflight, fs, db >>

(***************************************************************************)
(* main.py: cleanup_parent_folders and move_gallery_file.                  *)
(***************************************************************************)
\* os.path.commonpath([dir, abspath(DATA_DIR)]) == abspath(DATA_DIR): the
\* segments are compared as written, "." dropped and ".." kept
InsideData(dir) == IsPrefix(DATA_DIR, SelectSeq(dir, LAMBDA seg : seg # Dot))

\* os.rmdir refuses a path that ends in "." or ".."
RmdirRaises(dir) == dir # << >> /\ Basename(dir) \in { Dot, DotDot }

Rmdir(d, dir) == [ d EXCEPT !.dirs = @ \ { Abspath(dir) } ]

\* a cleanup that does not list the folders before it removes them
CleanupWithoutListing(abs, d, file_path) ==
  LET parent_dir == Dirname(file_path)
      grandparent == Dirname(parent_dir)
      removable(x, dir) == InsideData(dir) /\ PathExists(x, dir) /\ DirAt(x, dir)
  IN  IF ~abs THEN d
      ELSE IF ~removable(d, parent_dir) \/ RmdirRaises(parent_dir) THEN d
      ELSE IF ~removable(Rmdir(d, parent_dir), grandparent) \/ RmdirRaises(grandparent)
      THEN Rmdir(d, parent_dir)
      ELSE Rmdir(Rmdir(d, parent_dir), grandparent)

\* commonpath raises ValueError when DATA_DIR is relative: the paths of the
\* galleries are relative then and abspath(DATA_DIR) is not
cleanup_parent_folders(abs, d, file_path) ==
  LET parent_dir == Dirname(file_path)
      grandparent == Dirname(parent_dir)
      removable(x, dir) ==
        InsideData(dir) /\ PathExists(x, dir) /\ DirAt(x, dir) /\ DirEmpty(x, Abspath(dir))
  IN  IF ~abs THEN d
      ELSE IF ~removable(d, parent_dir) \/ RmdirRaises(parent_dir) THEN d
      ELSE IF ~removable(Rmdir(d, parent_dir), grandparent) \/ RmdirRaises(grandparent)
      THEN Rmdir(d, parent_dir)
      ELSE Rmdir(Rmdir(d, parent_dir), grandparent)

\* lines 97-106
MoveTargetDir(new_artist, new_series) ==
  IF new_series # << >>
  THEN PathJoin(PathJoin(LIBRARY_DIR, sanitize_filename(new_artist)), sanitize_filename(new_series))
  ELSE PathJoin(LIBRARY_DIR, sanitize_filename(new_artist))

\* move_gallery_file: the disk afterwards and the gallery object
move_gallery_file(abs, d, gallery, new_artist, new_series, moveOk) ==
  LET target_dir == MoveTargetDir(new_artist, new_series)
      current_path == gallery.path
      new_path == PathJoin(target_dir, Basename(current_path))
      d1 == IF PathExists(d, target_dir) THEN d ELSE MakeDirs(d, target_dir)
  IN  IF Abspath(current_path) = Abspath(new_path)
      THEN [ fs |-> d, gallery |-> gallery ]
      ELSE IF ~PathExists(d, target_dir) /\ MakeDirsRaises(target_dir)
      THEN [ fs |-> MakeDirs(d, Dirname(target_dir)), gallery |-> gallery ]
      ELSE IF ~PathExists(d1, current_path)
      THEN [ fs |-> d1, gallery |-> gallery ]
      ELSE IF MoveRaises(d1, current_path, new_path, moveOk)
      THEN [ fs |-> d1, gallery |-> gallery ]
      ELSE [ fs |-> cleanup_parent_folders(abs, MoveFile(d1, current_path, new_path), current_path),
             gallery |-> [ gallery EXCEPT !.path = new_path ] ]

(***************************************************************************)
(* main.py: the handlers that edit and delete.                             *)
(***************************************************************************)
\* the tag loops of update_gallery_metadata and update_series_metadata:
\* every name stripped, the blank ones skipped
StrippedTags(names) ==
  SelectSeq([ i \in 1..Len(names) |-> Strip(names[i]) ], LAMBDA n : n # << >>)

WithRow(rows, old, new) == (rows \ { old }) \cup { new }

\* POST /api/gallery/{gallery_id}/update
update_gallery_metadata(gallery_id, request, moveOk) ==
  IF ~HasId(db.galleries, gallery_id)
  THEN /\ result' = Response("update_gallery", 404, "HTTPException", "Gallery not found", << >>)
       /\ UNCHANGED << dataDirAbs, watchdog, clock, inflight, fs, db >>
  ELSE IF ~request.hasCategory
  THEN /\ result' = Response("update_gallery", 500, "AttributeError",
                             "'ImportRequest' object has no attribute 'category'", << >>)
       /\ UNCHANGED << dataDirAbs, watchdog, clock, inflight, fs, db >>
  ELSE
    LET gallery == ById(db.galleries, gallery_id)
        series1 == FoundOrCreated(db.series, request.series, SeriesRow(NextId(db.series), request.series))
        cats1 == FoundOrCreated(db.categories, request.category, NamedRow(NextId(db.categories), request.category))
        names == StrippedTags(request.tags)
        pending == PendingTags(db.tags, names)
        tags1 == TagsFlushed(db.tags, pending)
        edited == [ gallery EXCEPT !.artist = request.artist,
                                   !.series_id = IdOfName(series1, request.series),
                                   !.category_id = IdOfName(cats1, request.category) ]
        moved == move_gallery_file(dataDirAbs, fs, edited, request.artist, request.series, moveOk)
    IN  /\ fs' = moved.fs
        /\ IF FlushRaises(pending)
           THEN /\ db' = db
                /\ result' = Response("update_gallery", 500, "IntegrityError",
                                      "UNIQUE constraint failed: tags.name", << >>)
           ELSE /\ db' = [ db EXCEPT
                             !.series = series1, !.categories = cats1, !.tags = tags1,
                             !.galleries = WithRow(@, gallery,
                                [ moved.gallery EXCEPT !.tags = TagIds(tags1, names) ]) ]
                /\ result' = Response("update_gallery", 200, "", "", << >>)
        /\ UNCHANGED << dataDirAbs, watchdog, clock, inflight >>

\* s.galleries, in the order of the ids
RECURSIVE ById_Ordered(_)
ById_Ordered(rows) ==
  IF rows = { } THEN << >>
  ELSE LET first == CHOOSE r \in rows : \A q \in rows : r.id <= q.id
       IN  << first >> \o ById_Ordered(rows \ { first })

\* the loop of lines 550-551: every member moved in turn; `refused` are the
\* ids whose shutil.move the environment refuses
RECURSIVE MoveMembers(_, _, _, _, _)
MoveMembers(abs, d, members, new_series_name, refused) ==
  IF members = << >> THEN [ fs |-> d, galleries |-> { } ]
  ELSE LET g == Head(members)
           moved == move_gallery_file(abs, d, g, g.artist, new_series_name, g.id \notin refused)
           rest == MoveMembers(abs, moved.fs, Tail(members), new_series_name, refused)
       IN  [ fs |-> rest.fs, galleries |-> { moved.gallery } \cup rest.galleries ]

\* lines 542-545: the position in payload["order"], for the members only
Reordered(gs, series_id, order) ==
  { IF g.series_id = series_id /\ \E i \in 1..Len(order) : order[i] = g.id
    THEN [ g EXCEPT !.sort_order = Max({ i \in 1..Len(order) : order[i] = g.id }) ]
    ELSE g : g \in gs }

\* POST /api/series/{series_id}/update.  The payload is a dict: has<Key>
\* says whether the key is in it.
update_series_metadata(series_id, payload, refused) ==
  IF ~HasId(db.series, series_id)
  THEN /\ result' = Response("update_series", 404, "HTTPException", "Series not found", << >>)
       /\ UNCHANGED << dataDirAbs, watchdog, clock, inflight, fs, db >>
  ELSE
    LET s == ById(db.series, series_id)
        names == StrippedTags(payload.tags)
        pending == IF payload.hasTags THEN PendingTags(db.tags, names) ELSE << >>
        tags1 == TagsFlushed(db.tags, pending)
        edited == [ s EXCEPT !.name = IF payload.hasName THEN payload.name ELSE @,
                             !.thumbnail_url = IF payload.hasThumb THEN payload.thumbnail_url ELSE @,
                             !.tags = IF payload.hasTags THEN TagIds(tags1, names) ELSE @ ]
        ordered == IF payload.hasOrder THEN Reordered(db.galleries, s.id, payload.order)
                   ELSE db.galleries
        members == { g \in ordered : g.series_id = s.id }
        moved == IF payload.hasName
                 THEN MoveMembers(dataDirAbs, fs, ById_Ordered(members), edited.name, refused)
                 ELSE [ fs |-> fs, galleries |-> members ]
        nameTaken == \E o \in db.series : o.id # s.id /\ o.name = edited.name
    IN  /\ fs' = moved.fs
        /\ IF FlushRaises(pending) \/ nameTaken
           THEN /\ db' = db
                /\ result' = Response("update_series", 500, "IntegrityError",
                                      "UNIQUE constraint failed", << >>)
           ELSE /\ db' = [ db EXCEPT !.series = WithRow(@, s, edited), !.tags = tags1,
                                     !.galleries = (ordered \ members) \cup moved.galleries ]
                /\ result' = Response("update_series", 200, "", "", << >>)
        /\ UNCHANGED << dataDirAbs, watchdog, clock, inflight >>

\* lines 597-601: the archive, the thumbnail and the empty folders go;
\* removeOk is whether os.remove of the archive succeeds
RemoveGalleryFiles(abs, d, gallery, removeOk) ==
  IF PathExists(d, gallery.path) /\ (~removeOk \/ ~FileAt(d, gallery.path))
  THEN d
  ELSE cleanup_parent_folders(abs,
         [ d EXCEPT !.files = IF PathExists(d, gallery.path)
                              THEN WithoutFile(@, Abspath(gallery.path)) ELSE @,
                    !.thumbs = @ \ { gallery.id } ],
         gallery.path)

\* lines 587-595: the series goes with its last gallery
WithoutOrphan(seriesRows, gs, series_id) ==
  IF series_id # 0 /\ ~(\E g \in gs : g.series_id = series_id)
  THEN { r \in seriesRows : r.id # series_id }
  ELSE seriesRows

\* DELETE /api/gallery/{gallery_id}
delete_gallery(gallery_id, removeOk) ==
  IF ~HasId(db.galleries, gallery_id)
  THEN /\ result' = Response("delete_gallery", 404, "HTTPException", "Gallery not found", << >>)
       /\ UNCHANGED << dataDirAbs, watchdog, clock, inflight, fs, db >>
  ELSE
    LET gallery == ById(db.galleries, gallery_id)
        left == db.galleries \ { gallery }
        series1 == WithoutOrphan(db.series, left, gallery.series_id)
    IN  /\ db' = [ db EXCEPT !.galleries = left, !.series = series1 ]
        /\ fs' = RemoveGalleryFiles(dataDirAbs, fs, gallery, removeOk)
        /\ result' = Response("delete_gallery", 200, "", "", << series1 # db.series >>)
        /\ UNCHANGED << dataDirAbs, watchdog, clock, inflight >>

(***************************************************************************)
(* Start: startup_event has made the directories and the empty tables.     *)
(***************************************************************************)
\* two threads of the pool that runs the synchronous handlers
Workers == { 1, 2 }

\* time.sleep(3600), days_freq * 86400 and the default of days_freq
WakeSeconds == 3600
DaySeconds == 86400
DefaultFrequencyDays == 7

\* the server starts more than the default frequency after the epoch
StartTime == (DefaultFrequencyDays + 1) * DaySeconds

\* wifi_watchdog.py line 70, before the first pass of the loop
WatchdogStart == [ fail_count |-> 0, passes |-> << >> ]

\* << >> is the directory the server runs in; the relative DATA_DIR lies in it
Init ==
  /\ dataDirAbs \in BOOLEAN
  /\ fs = [ files |-> [ q \in { } |-> 0 ],
            dirs |-> { << >>, DATA_DIR, INPUT_DIR, LIBRARY_DIR, THUMBNAIL_DIR, LOG_DIR, BACKUP_DIR },
            thumbs |-> { } ]
  /\ db = [ staged |-> { }, galleries |-> { }, series |-> { },
            categories |-> { }, tags |-> { }, settings |-> { } ]
  /\ result = Response("start", 200, "", "", << >>)
  /\ inflight = [ w \in Workers |-> None ]
  /\ clock = StartTime
  /\ watchdog = WatchdogStart

\* the start with DATA_DIR left at its default, the relative "./data"
InitDefault == Init /\ ~dataDirAbs

(***************************************************************************)
(* The requests of the model.                                              *)
(***************************************************************************)
F_zip == << "f", ".", "z", "i", "p" >>
G_cbz == << "g", ".", "C", "B", "Z" >>

Request(artist, seriesName, hasCategory, category, tagNames) ==
  [ artist |-> artist, series |-> seriesName, hasCategory |-> hasCategory,
    category |-> category, tags |-> tagNames ]

\* the requests as schemas.ImportRequest parses them: no category attribute
ParsedRequests ==
  { Request(<< "a" >>, << "s" >>, FALSE, << >>, << << "x" >> >>) }

\* request objects that carry the category attribute the handlers read
CategoryRequests ==
  { Request(<< "a" >>, << "s" >>, TRUE, << "c" >>, << << "x" >> >>),
    Request(<< "b", "/" >>, << >>, TRUE, << >>, << << "x" >>, << "x" >> >>) }

Requests == ParsedRequests \cup CategoryRequests

Payload(hasName, name) ==
  [ hasName |-> hasName, name |-> name, hasThumb |-> FALSE, thumbnail_url |-> None,
    hasTags |-> FALSE, tags |-> << >>, hasOrder |-> FALSE, order |-> << >> ]

Payloads == { Payload(TRUE, << "t" >>) }

\* the ids of the model stay within the bounds
Bounded(b) ==
  /\ \A r \in b.galleries : r.id <= MaxGalleryId
  /\ \A r \in b.staged : r.id <= MaxStagedId
  /\ \A r \in b.series : r.id <= MaxSeriesId

(***************************************************************************)
(* Spec: the library under import, edit and delete requests.               *)
(***************************************************************************)
Upload == upload_gallery_api(F_zip, 1)

Scan == scan_input_directory /\ Bounded(db')

Import ==
  \E id \in 1..MaxStagedId, r \in Requests, moveOk \in BOOLEAN :
    import_comic(id, r, moveOk, TRUE) /\ Bounded(db')

UpdateGallery ==
  \E id \in 1..MaxGalleryId, r \in Requests, moveOk \in BOOLEAN :
    update_gallery_metadata(id, r, moveOk) /\ Bounded(db')

UpdateSeries ==
  \E id \in 1..MaxSeriesId, p \in Payloads, refused \in SUBSET (1..MaxGalleryId) :
    update_series_metadata(id, p, refused)

DeleteGallery == \E id \in 1..MaxGalleryId, removeOk \in BOOLEAN : delete_gallery(id, removeOk)

Next ==
  \/ Upload
  \/ Scan
  \/ Import
  \/ UpdateGallery
  \/ UpdateSeries
  \/ DeleteGallery

Spec == Init /\ [][Next]_vars

(***************************************************************************)
(* SpecImport: the import pipeline alone, with files that vanish from the  *)
(* input directory and moves that fail.                                    *)
(***************************************************************************)
UploadAny == \E f \in { F_zip, G_cbz } : upload_gallery_api(f, 1)

UserDeletes == UserDeletesInputFile(F_zip)

ImportAny ==
  \E id \in 1..(MaxStagedId + 1), r \in Requests, moveOk \in BOOLEAN :
    import_comic(id, r, moveOk, TRUE) /\ Bounded(db')

NextImport ==
  \/ UploadAny
  \/ UserDeletes
  \/ Scan
  \/ ImportAny

SpecImport == InitDefault /\ [][NextImport]_vars

(***************************************************************************)
(* SpecRead: archives of every kind imported and read page by page.        *)
(***************************************************************************)
\* the user deletes an archive of the library by hand
UserDeletesLibraryFile(p) ==
  /\ p \in DOMAIN fs.files
  /\ IsPrefix(LIBRARY_DIR, p)
  /\ fs' = [ fs EXCEPT !.files = WithoutFile(@, p) ]
  /\ UNCHANGED << dataDirAbs, watchdog, clock, inflight, db, result >>

UploadArchive == \E a \in ArchiveIds : upload_gallery_api(F_zip, a)

ArchiveRequest == Request(<< "a" >>, << >>, TRUE, << >>, << >>)

ImportArchive ==
  \E id \in 1..MaxStagedId : import_comic(id, ArchiveRequest, TRUE, TRUE) /\ Bounded(db')

ReadPage == \E id \in 1..MaxGalleryId, page \in 0..MaxPage : read_page_image(id, page)

LibraryFileVanishes == \E g \in db.galleries : UserDeletesLibraryFile(Abspath(g.path))

NextRead ==
  \/ UploadArchive
  \/ Scan
  \/ ImportArchive
  \/ ReadPage
  \/ LibraryFileVanishes

SpecRead == InitDefault /\ [][NextRead]_vars

(***************************************************************************)
(* SpecThumb: archives of every kind imported and deleted, with thumbnails *)
(* that cannot always be written and archives that cannot always be        *)
(* removed.                                                                *)
(***************************************************************************)
ImportThumb ==
  \E id \in 1..MaxStagedId, thumbOk \in BOOLEAN :
    import_comic(id, ArchiveRequest, TRUE, thumbOk) /\ Bounded(db')

NextThumb ==
  \/ UploadArchive
  \/ Scan
  \/ ImportThumb
  \/ DeleteGallery

SpecThumb == InitDefault /\ [][NextThumb]_vars

(***************************************************************************)
(* Properties of the import pipeline (SpecImport, Spec).                   *)
(***************************************************************************)
StagedIds == 1..(MaxStagedId + 1)
AllRequests == Requests

\* the step is the import of staged row `id` with request r
ImportStep(id, r, moveOk, thumbOk) == import_comic(id, r, moveOk, thumbOk)

\* the step is answered by import_comic
Imports == result'.op = "import"

\* the import of `id` gets as far as the move, and the move raises
ImportMoveFails(id, r, moveOk) ==
  /\ HasId(db.staged, id)
  /\ r.hasCategory
  /\ ~FlushRaises(PendingTags(db.tags, r.tags))
  /\ MoveRaises(MakeDirs(fs, ImportDestFolder(r)), ById(db.staged, id).path,
                ImportDestPath(r, ById(db.staged, id).path), moveOk)

\* C1: when the move of the staged file fails inside import_gallery (the
\* source is gone or the destination refuses), then afterwards there is no
\* gallery row of that call, the staged row is still there, and no series,
\* category or tag row the call created persists.
C1_MoveFailureLeavesIndex ==
  [][ Imports => \A id \in StagedIds, r \in AllRequests, moveOk \in BOOLEAN, thumbOk \in BOOLEAN :
        (ImportMoveFails(id, r, moveOk) /\ ImportStep(id, r, moveOk, thumbOk))
        => /\ result'.exc = "IOError"
           /\ db'.galleries = db.galleries
           /\ ById(db.staged, id) \in db'.staged
           /\ db'.series = db.series
           /\ db'.categories = db.categories
           /\ db'.tags = db.tags ]_vars

\* an import answered "Failed to move file" whose staged row is still there
\* while its file is gone from the input directory
C1_Witness ==
  /\ result.op = "import"
  /\ result.exc = "IOError"
  /\ \E r \in db.staged : ~FileAt(fs, r.path)
  /\ db.series = { } /\ db.tags = { } /\ db.galleries = { }

\* C2: import_gallery for a staged row whose file is in the input directory
\* and whose destination accepts the move completes without error and
\* commits exactly one new gallery (status New, pages_read 0) that refers to
\* the series, category and tags of the request; the staged row is deleted,
\* the archive has left the input directory and is at the gallery's path.
C2_ImportCompletes ==
  [][ Imports => \A id \in StagedIds, r \in ParsedRequests, thumbOk \in BOOLEAN :
        ( /\ HasId(db.staged, id)
          /\ FileAt(fs, ById(db.staged, id).path)
          /\ ImportStep(id, r, TRUE, thumbOk) )
        => /\ result'.status = 200
           /\ \E g \in db'.galleries \ db.galleries :
                /\ db'.galleries = db.galleries \cup { g }
                /\ g.status = "New" /\ g.pages_read = 0
                /\ g.series_id = IdOfName(db'.series, r.series)
                /\ FileAt(fs', g.path)
           /\ ~HasId(db'.staged, id)
           /\ ~FileAt(fs', ById(db.staged, id).path) ]_vars

\* C3: in every state reached by imports, gallery updates, series updates
\* and deletions, the path of every gallery row names an archive on disk.
C3_EveryPathExists ==
  \A g \in db.galleries : PathExists(fs, g.path) /\ FileAt(fs, g.path)

\* C4: import_gallery with a staged id that has no row fails with the
\* not-found error, which differs from the error of a failed move in its
\* exception and in its text, and changes neither the rows nor the disk.
C4_MissingStagedRow ==
  [][ Imports => \A id \in StagedIds, r \in AllRequests, moveOk \in BOOLEAN, thumbOk \in BOOLEAN :
        (~HasId(db.staged, id) /\ ImportStep(id, r, moveOk, thumbOk))
        => /\ result'.status >= 400
           /\ result'.exc = "ValueError"
           /\ result'.detail = "Staged file not found"
           /\ result'.exc # MoveFailed(fs, db, db).exc
           /\ result'.detail # MoveFailed(fs, db, db).detail
           /\ db' = db
           /\ fs' = fs ]_vars

\* an import of a staged id without a row, answered while another staged
\* row waits whose import would fail at the move
C4_Witness ==
  /\ result.op = "import"
  /\ result.detail = "Staged file not found"
  /\ \E id \in StagedIds, r \in AllRequests : ImportMoveFails(id, r, TRUE)

\* sanitize of the specification's PathResolver, and its canonicalPath
Sanitize(name) ==
  IF ImporterSanitize(name) = << >> THEN Unknown ELSE ImporterSanitize(name)

CanonicalPath(artist, seriesName, filename) ==
  IF seriesName = << >>
  THEN PathJoin(PathJoin(LIBRARY_DIR, Sanitize(artist)), filename)
  ELSE PathJoin(PathJoin(PathJoin(LIBRARY_DIR, Sanitize(artist)), Sanitize(seriesName)), filename)

\* C5: a successful import places the archive at
\* library/sanitize(artist)/filename when the request names no series and at
\* library/sanitize(artist)/sanitize(series)/filename when it names one, and
\* the path of the new gallery is that place.
C5_ImportedAtCanonicalPath ==
  [][ Imports => \A id \in StagedIds, r \in AllRequests, moveOk \in BOOLEAN, thumbOk \in BOOLEAN :
        (result'.status = 200 /\ ImportStep(id, r, moveOk, thumbOk))
        => \E g \in db'.galleries :
             /\ g.id = result'.value[1]
             /\ g.path = CanonicalPath(r.artist, r.series, g.filename)
             /\ FileAt(fs', g.path) ]_vars

(***************************************************************************)
(* Properties of the reader and of the page count (SpecRead).              *)
(***************************************************************************)
GalleryIds == 1..MaxGalleryId
Pages == 0..MaxPage

\* the step is the read of page `page` of gallery `id`
ReadStep(id, page) == read_page_image(id, page)

\* the step is answered by read_page_image
Reads == result'.op = "read"

\* the archive behind gallery `id`, 0 when the row or the file is missing
ArchiveBehind(d, b, id) ==
  IF HasId(b.galleries, id) /\ PathExists(d, ById(b.galleries, id).path)
     /\ FileAt(d, ById(b.galleries, id).path)
  THEN d.files[Abspath(ById(b.galleries, id).path)]
  ELSE 0

\* the archive opens and the bytes of every entry can be read
Readable(a) == a # 0 /\ ArchiveOf[a].openable /\ ArchiveOf[a].unreadable = { }

\* the names of the image entries, and how many there are
ImageNames(a) == { n \in { ArchiveOf[a].names[i] : i \in 1..Len(ArchiveOf[a].names) } : IsImageName(n) }
ImageCount(a) == Cardinality({ i \in 1..Len(ArchiveOf[a].names) : IsImageName(ArchiveOf[a].names[i]) })

\* C6: reading a page below 1 or above the count of a gallery whose archive
\* is readable fails with an out-of-range error that differs from the error
\* reported for an archive that cannot be read.
C6_OutOfRangeDistinct ==
  [][ Reads => \A id \in GalleryIds :
        LET a == ArchiveBehind(fs, db, id)
        IN  Readable(a) =>
              \A page \in Pages :
                ((page < 1 \/ page > ImageCount(a)) /\ ReadStep(id, page))
                => /\ result'.status >= 400
                   /\ result' # ReaderError("BadZipFile") ]_vars

\* C7: reading fails with "not found" when the gallery row is absent and
\* with a "not found" of another text when the row is there but its file is
\* not on disk; in both cases nothing changes.
C7_NotFoundKinds ==
  [][ Reads => \A id \in GalleryIds :
        LET rowAbsent == ~HasId(db.galleries, id)
            fileMissing == ~rowAbsent /\ ~PathExists(fs, ById(db.galleries, id).path)
        IN  (rowAbsent \/ fileMissing) =>
              \A page \in Pages :
                ReadStep(id, page)
                => /\ result'.status = 404
                   /\ rowAbsent => result'.detail = "Gallery not found"
                   /\ fileMissing => /\ result'.detail = "Gallery file missing on disk"
                                      /\ result' # GalleryNotFound(id)
                   /\ fs' = fs /\ db' = db ]_vars

\* a read answered "file missing" for a gallery whose row is there
C7_Witness ==
  /\ result.op = "read"
  /\ result.detail = "Gallery file missing on disk"
  /\ \E g \in db.galleries : ~PathExists(fs, g.path)

StagedArchive(id) ==
  IF HasId(db.staged, id) /\ FileAt(fs, ById(db.staged, id).path)
  THEN fs.files[Abspath(ById(db.staged, id).path)]
  ELSE 0

\* the gallery the import of this step answered with
Imported == CHOOSE g \in db'.galleries : g.id = result'.value[1]

\* the page count of the imported gallery is the number of image entries,
\* and the reads that succeed are those of the pages 1..pages_total
CountMatchesReads(a) ==
  /\ Imported.pages_total = ImageCount(a)
  /\ \A page \in Pages :
       (get_page_image(fs', db', Imported.id, page).status = 200)
       <=> (1 <= page /\ page <= Imported.pages_total)

\* C9 as stated: after a successful import of an archive whose entries can
\* be listed, pages_total is the number of its image entries, and the reads
\* of the gallery succeed for exactly the pages 1..pages_total.
C9_CountIsReadablePages ==
  [][ Imports => \A id \in StagedIds, thumbOk \in BOOLEAN :
        ( /\ StagedArchive(id) # 0
          /\ ArchiveOf[StagedArchive(id)].openable
          /\ ImportStep(id, ArchiveRequest, TRUE, thumbOk)
          /\ result'.status = 200 )
        => CountMatchesReads(StagedArchive(id)) ]_vars

\* C9, amended: the same for an archive whose entries can be listed and
\* whose image entries can all be read.
C9_CountIsReadablePagesOfReadable ==
  [][ Imports => \A id \in StagedIds, thumbOk \in BOOLEAN :
        ( /\ Readable(StagedArchive(id))
          /\ ImportStep(id, ArchiveRequest, TRUE, thumbOk)
          /\ result'.status = 200 )
        => CountMatchesReads(StagedArchive(id)) ]_vars

\* the archive of three pages was imported and counted
C9_Witness ==
  /\ result.op = "import"
  /\ result.status = 200
  /\ \E g \in db.galleries :
       /\ g.id = result.value[1]
       /\ g.pages_total = 3
       /\ ArchiveBehind(fs, db, g.id) = 1

\* step 7 of the import fails: the archive does not open, or it has pages
\* and the first cannot be read, cannot be decoded, or the thumbnail cannot
\* be written
Step7Fails(a, thumbOk) ==
  \/ ~ArchiveOf[a].openable
  \/ /\ ImageCount(a) > 0
     /\ \/ \E e \in ImageNames(a) :
             (\A n \in ImageNames(a) : ~StrLess(n, e)) /\ e \in ArchiveOf[a].unreadable
        \/ ~ArchiveOf[a].decodable
        \/ ~thumbOk

\* C10 as stated: a failure in step 7 does not fail the import: the gallery
\* is committed, the staged row deleted, pages_total is 0 and the gallery
\* has no thumbnail file.
C10_Step7FailureLeavesZero ==
  [][ Imports => \A id \in StagedIds, thumbOk \in BOOLEAN :
        ( /\ StagedArchive(id) # 0
          /\ Step7Fails(StagedArchive(id), thumbOk)
          /\ ImportStep(id, ArchiveRequest, TRUE, thumbOk) )
        => /\ result'.status = 200
           /\ Imported \notin db.galleries
           /\ ~HasId(db'.staged, id)
           /\ Imported.pages_total = 0
           /\ Imported.id \notin fs'.thumbs ]_vars

\* C10, amended: a failure in step 7 does not fail the import: the gallery
\* is committed, the staged row deleted, pages_total is 0 when the archive
\* did not open and the number of image entries when it did, and the import
\* writes no thumbnail file.
C10_Step7FailureKeepsImport ==
  [][ Imports => \A id \in StagedIds, thumbOk \in BOOLEAN :
        ( /\ StagedArchive(id) # 0
          /\ Step7Fails(StagedArchive(id), thumbOk)
          /\ ImportStep(id, ArchiveRequest, TRUE, thumbOk) )
        => /\ result'.status = 200
           /\ Imported \notin db.galleries
           /\ ~HasId(db'.staged, id)
           /\ Imported.pages_total =
                IF ArchiveOf[StagedArchive(id)].openable THEN ImageCount(StagedArchive(id)) ELSE 0
           /\ fs'.thumbs = fs.thumbs ]_vars

\* an import whose archive listed its pages and whose thumbnail failed
C10_Witness ==
  /\ result.op = "import"
  /\ result.status = 200
  /\ \E g \in db.galleries :
       /\ g.id = result.value[1]
       /\ g.pages_total > 0
       /\ g.id \notin fs.thumbs

(***************************************************************************)
(* The two sanitizers, applied to names of every shape.                    *)
(***************************************************************************)
MaxLen == 2

SanitizerChars ==
  { "a", " ", ".", "-", "'", "<", ">", ":", "\"", "/", "\\", "|", "?", "*" }

\* the names of at most MaxLen characters
Names == UNION { [ 1..n -> SanitizerChars ] : n \in 0..MaxLen }

\* main.py:97 and importer.py:25 applied to the same name
Sanitizes ==
  \E name \in Names :
    /\ result' = Response("sanitize", 200, "", "",
                          << name, sanitize_filename(name), ImporterSanitize(name) >>)
    /\ UNCHANGED << dataDirAbs, watchdog, clock, inflight, fs, db >>

NextSanitize == Sanitizes

SpecSanitize == InitDefault /\ [][NextSanitize]_vars

ForbiddenChars == { "/", "\\", ":", "*", "?", "\"", "<", ">", "|" }

Blank(name) == Strip(name) = << >>

\* C11: both sanitizers return a string without any of / \ : * ? " < > |,
\* and return "Unknown" for a name that is empty or only whitespace.
C11_SanitizersCleanAndUnknown ==
  result.op = "sanitize" =>
    LET name == result.value[1]
    IN  \A out \in { result.value[2], result.value[3] } :
          /\ \A i \in 1..Len(out) : out[i] \notin ForbiddenChars
          /\ (Blank(name) => out = Unknown)

(***************************************************************************)
(* SpecMove: galleries relocated under artist and series names that the    *)
(* client chooses, "." and ".." among them.                                *)
(***************************************************************************)
MoveArtists == { << "a" >>, DotDot }
MoveSeries == { << >>, DotDot }

MoveRequests ==
  { Request(a, s, TRUE, << >>, << >>) : a \in MoveArtists, s \in MoveSeries }

ImportNamed ==
  \E id \in 1..MaxStagedId, r \in MoveRequests :
    import_comic(id, r, TRUE, TRUE) /\ Bounded(db')

UpdateGalleryNamed ==
  \E id \in 1..MaxGalleryId, r \in MoveRequests, moveOk \in BOOLEAN :
    update_gallery_metadata(id, r, moveOk) /\ Bounded(db')

RenameSeries ==
  \E id \in 1..MaxSeriesId :
    update_series_metadata(id, Payload(TRUE, << "s" >>), { })

NextMove ==
  \/ Upload
  \/ Scan
  \/ ImportNamed
  \/ UpdateGalleryNamed
  \/ RenameSeries
  \/ LibraryFileVanishes

SpecMove == Init /\ [][NextMove]_vars

\* the folder segments of a stored path: what lies between the library root
\* and the file name
FolderSegments(path) ==
  { path[n] : n \in (Len(LIBRARY_DIR) + 1)..(Len(path) - 1) }

\* C12: every sanitized segment of a path holds only letters, digits,
\* space, '-' and '_', so that neither "." nor ".." is a segment, and the
\* path that relocate and import give a gallery resolves inside the library
\* root.
C12_PathsInsideLibrary ==
  \A g \in db.galleries :
    /\ \A seg \in FolderSegments(g.path) :
         \A i \in 1..Len(seg) : IsAlpha(seg[i]) \/ IsDigit(seg[i]) \/ seg[i] \in { " ", "-", "_" }
    /\ IsPrefix(LIBRARY_DIR, Abspath(g.path))

\* move_gallery_file called again with the arguments of a first call
MovedTwice(abs, d, gallery, new_artist, new_series) ==
  LET once == move_gallery_file(abs, d, gallery, new_artist, new_series, TRUE)
  IN  [ once |-> once,
        twice |-> move_gallery_file(abs, once.fs, once.gallery, new_artist, new_series, TRUE) ]

\* lines 104-109: the computed target is the current path
TargetIsCurrent(gallery, new_artist, new_series) ==
  Abspath(PathJoin(MoveTargetDir(new_artist, new_series), Basename(gallery.path)))
    = Abspath(gallery.path)

\* C13: relocate is idempotent: of two calls with the same arguments the
\* second changes neither the disk nor gallery.path, and a call whose
\* computed target is the current path (as absolute paths) does nothing.
C13_RelocateIdempotent ==
  \A g \in db.galleries, a \in MoveArtists, s \in MoveSeries :
    LET m == MovedTwice(dataDirAbs, fs, g, a, s)
    IN  /\ m.twice.fs = m.once.fs
        /\ m.twice.gallery.path = m.once.gallery.path
        /\ (TargetIsCurrent(g, a, s) => m.once.fs = fs /\ m.once.gallery = g)

\* lines 109-123: the file has to move and is not moved, because the move
\* (or os.makedirs before it) raises or the source file is missing
CannotMove(abs, d, gallery, new_artist, new_series, moveOk) ==
  /\ ~TargetIsCurrent(gallery, new_artist, new_series)
  /\ move_gallery_file(abs, d, gallery, new_artist, new_series, moveOk).gallery.path = gallery.path

\* line 82 raises ValueError for a relative DATA_DIR: cleanup fails
CleanupFails(abs) == ~abs

\* the outcome that import_comic gives a failed move
IOFailure(r) == r.status # 200 /\ r.exc = "IOError"

UpdateGalleryStep(id, r, moveOk) == update_gallery_metadata(id, r, moveOk)

\* C14: when relocate cannot move the file (the move raises or the source
\* is missing) the caller gets an IOFailure; a failure of the cleanup is not
\* reported and does not keep gallery.path from being updated.
C14_MoveFailureReported ==
  [][ result'.op = "update_gallery" =>
        \A id \in GalleryIds, r \in MoveRequests, moveOk \in BOOLEAN :
          (HasId(db.galleries, id) /\ UpdateGalleryStep(id, r, moveOk)) =>
            LET g == ById(db.galleries, id)
                failed == CannotMove(dataDirAbs, fs, g, r.artist, r.series, moveOk)
            IN  /\ failed => IOFailure(result')
                /\ (~failed /\ ~TargetIsCurrent(g, r.artist, r.series) /\ CleanupFails(dataDirAbs)) =>
                     /\ result'.status = 200
                     /\ ById(db'.galleries, id).path =
                          PathJoin(MoveTargetDir(r.artist, r.series), Basename(g.path)) ]_vars

(***************************************************************************)
(* SpecCleanup: cleanup_parent_folders applied to old file paths of every  *)
(* shape, on a disk with empty folders inside and outside the data root.   *)
(***************************************************************************)
OutsideDir == << << "x" >> >>
OutsideSubDir == << << "x" >>, << "y" >> >>
ArtistDir == Append(LIBRARY_DIR, << "a" >>)
SeriesDir == Append(ArtistDir, << "s" >>)

CleanupDirs == { OutsideDir, OutsideSubDir, ArtistDir, SeriesDir }

\* the old paths handed to cleanup_parent_folders
CleanupPaths ==
  { Append(ArtistDir, F_zip),
    Append(SeriesDir, F_zip),
    DATA_DIR \o << DotDot, << "x" >>, F_zip >>,
    DATA_DIR \o << DotDot, << "x" >>, << "y" >>, F_zip >>,
    LIBRARY_DIR \o << DotDot, DotDot, << "x" >>, F_zip >> }

\* somebody makes an empty folder
UserMakesDir ==
  \E dir \in CleanupDirs :
    /\ dir \notin fs.dirs
    /\ Dirname(dir) \in fs.dirs
    /\ fs' = [ fs EXCEPT !.dirs = @ \cup { dir } ]
    /\ UNCHANGED << dataDirAbs, watchdog, clock, inflight, db, result >>

CleansUp ==
  \E file_path \in CleanupPaths :
    /\ fs' = cleanup_parent_folders(dataDirAbs, fs, file_path)
    /\ result' = Response("cleanup", 200, "", "", << file_path >>)
    /\ UNCHANGED << dataDirAbs, watchdog, clock, inflight, db >>

NextCleanup ==
  \/ UserMakesDir
  \/ CleansUp

SpecCleanup == Init /\ [][NextCleanup]_vars

\* C15: whatever old file path cleanup_parent_folders is given, paths with
\* ".." included, it deletes no directory outside the data root.
C15_NothingOutsideDataDeleted ==
  [][ result'.op = "cleanup" =>
        \A dir \in fs.dirs : ~IsPrefix(DATA_DIR, dir) => dir \in fs'.dirs ]_vars

(***************************************************************************)
(* SpecScan: the scanner alone, over an input directory whose files come   *)
(* and go.                                                                 *)
(***************************************************************************)
MaxScanId == 3

ScanNames == { F_zip, G_cbz, N_txt }

\* a file is copied into the input directory by hand (scanner.py line 15)
UserCopiesInputFile(filename) ==
  /\ PathJoin(INPUT_DIR, filename) \notin DOMAIN fs.files
  /\ fs' = [ fs EXCEPT !.files = WithFile(@, PathJoin(INPUT_DIR, filename), 1) ]
  /\ UNCHANGED << dataDirAbs, watchdog, clock, inflight, db, result >>

UserCopies == \E f \in ScanNames : UserCopiesInputFile(f)

UserRemoves == \E f \in ScanNames : UserDeletesInputFile(f)

ScanAll == scan_input_directory /\ \A r \in db'.staged : r.id <= MaxScanId

NextScan ==
  \/ UserCopies
  \/ UserRemoves
  \/ UploadAny
  \/ ScanAll

SpecScan == InitDefault /\ [][NextScan]_vars

ScanStep == scan_input_directory

StagedNames(b) == { r.filename : r \in b.staged }

\* the files of the input directory whose name ends in .zip or .cbz,
\* whatever the case of the letters
EndsInZipOrCbz(name) ==
  LET low == Lower(name)
  IN  \E ext \in { << ".", "z", "i", "p" >>, << ".", "c", "b", "z" >> } :
        Len(low) >= 4 /\ SubSeq(low, Len(low) - 3, Len(low)) = ext

ArchivesInInput(d) ==
  { q[Len(q)] : q \in { q \in DOMAIN d.files : Dirname(q) = INPUT_DIR /\ EndsInZipOrCbz(q[Len(q)]) } }

LastScanStands ==
  /\ result.op = "scan"
  /\ result.status = 200
  /\ StagedNames(db) = ArchivesInInput(fs)
  /\ result.value[2] = Cardinality(db.staged)

\* C17: a scan run again with no change to the input directory adds,
\* deletes and modifies no row (ids and suggested metadata stay) and
\* reports added = 0.
C17_ScanIdempotent ==
  [][ (LastScanStands /\ result'.op = "scan" /\ ScanStep) =>
        /\ db' = db
        /\ result'.value = << 0, Cardinality(db.staged) >> ]_vars

\* a second scan has run over an unchanged directory of two archives
C17_Witness ==
  /\ LastScanStands
  /\ result.value = << 0, 2 >>
  /\ \E r \in db.staged : r.filename = G_cbz /\ r.suggested_title = << "g" >>

(***************************************************************************)
(* SpecScanRace: scans that run at the same time in different threads,     *)
(* each with its own session, and uploads between their steps.  A scan     *)
(* first lists the directory and reads the table (lines 13-21), and writes *)
(* when it commits (line 57).                                              *)
(***************************************************************************)
\* StagedFile.filename is UNIQUE: an INSERT of a name the table holds fails
UniqueNotEnforced(rows, names) == FALSE

UniqueViolated(rows, names) == \E n \in names : \E r \in rows : r.filename = n

\* lines 13-21 in thread w
ScanReads(w) ==
  /\ inflight[w] = None
  /\ inflight' = [ inflight EXCEPT ![w] =
                     Some([ physical_files |-> PhysicalFiles(fs), db_files |-> db.staged ]) ]
  /\ UNCHANGED << dataDirAbs, watchdog, clock, fs, db, result >>

\* lines 25-64 in thread w: the INSERTs of the flush, then the DELETEs by id
ScanCommits(w) ==
  /\ inflight[w] # None
  /\ LET read == inflight[w][1]
         known == { r.filename : r \in read.db_files }
         gone == { r.id : r \in { r \in read.db_files : r.filename \notin read.physical_files } }
     IN  \E order \in Orders(read.physical_files \ known) :
           IF UniqueViolated(db.staged, read.physical_files \ known)
           THEN /\ db' = db
                /\ result' = Response("scan", 200, "IntegrityError",
                                      "UNIQUE constraint failed: staged_files.filename", << >>)
           ELSE /\ db' = [ db EXCEPT !.staged =
                             { r \in @ \cup { StagedRow(NextId(@) + i - 1, order[i]) : i \in 1..Len(order) } :
                                 r.id \notin gone } ]
                /\ result' = Response("scan", 200, "", "",
                                      << Len(order), Cardinality(read.physical_files) >>)
  /\ inflight' = [ inflight EXCEPT ![w] = None ]
  /\ UNCHANGED << dataDirAbs, watchdog, clock, fs >>

ScanBegins == \E w \in Workers : ScanReads(w)

ScanEnds == \E w \in Workers : ScanCommits(w) /\ \A r \in db'.staged : r.id <= MaxScanId

NextScanRace ==
  \/ UploadAny
  \/ UserRemoves
  \/ ScanBegins
  \/ ScanEnds

SpecScanRace == InitDefault /\ [][NextScanRace]_vars

\* C18: in every reachable state, also after two scans that ran at the same
\* time and after uploads between the steps of a scan, no two StagedFile
\* rows have the same filename.
C18_OneRowPerFilename ==
  \A r1, r2 \in db.staged : r1.filename = r2.filename => r1 = r2

\* two scans read the same directory; the commit of the second was refused
\* and the file has its one row
C18_Witness ==
  /\ result.op = "scan"
  /\ result.exc = "IntegrityError"
  /\ \E r \in db.staged : r.filename = F_zip
  /\ \A w \in Workers : inflight[w] = None

(***************************************************************************)
(* main.py: get_series_cover, get_series_artist_name and the series page   *)
(* that shows them.  SpecSeries starts from a series with any members.     *)
(***************************************************************************)
MaxMembers == 2

Various == << "V", "a", "r", "i", "o", "u", "s" >>
ReadingSentinel == << "_", "_", "r", "e", "a", "d", "i", "n", "g", "_", "_" >>

\* what get_series_cover returns: f"/thumbnails/{id}.jpg", a url as it is
\* stored, or ""
ThumbnailOf(id) == [ thumbnail |-> id, url |-> << >> ]
Verbatim(url) == [ thumbnail |-> 0, url |-> url ]

\* the artist of whichever member the relationship hands out first
FirstMemberArtist(galleries) ==
  IF galleries = << >> \/ Head(galleries).artist = << >> THEN Unknown ELSE Head(galleries).artist

\* lines 149-151: the set of the artists that are not empty
RECURSIVE ArtistSet(_)
ArtistSet(galleries) ==
  IF galleries = << >> THEN { }
  ELSE (IF Head(galleries).artist # << >> THEN { Head(galleries).artist } ELSE { })
       \cup ArtistSet(Tail(galleries))

\* galleries is series.galleries, in the order the relationship gives them
get_series_artist_name(galleries) ==
  IF galleries = << >> THEN Unknown
  ELSE LET artists == ArtistSet(galleries)
       IN  IF Cardinality(artists) = 0 THEN Unknown
           ELSE IF Cardinality(artists) = 1 THEN CHOOSE a \in artists : TRUE
           ELSE Various

\* sorted(series.galleries, key=lambda x: (x.sort_order, x.id))
RECURSIVE SortedGals(_)
SortedGals(gs) ==
  IF gs = { } THEN << >>
  ELSE LET first == CHOOSE g \in gs : \A h \in gs :
                      \/ g.sort_order < h.sort_order
                      \/ (g.sort_order = h.sort_order /\ g.id <= h.id)
       IN  << first >> \o SortedGals(gs \ { first })

get_series_cover(series, galleries) ==
  IF galleries = << >> THEN Verbatim(<< >>)
  ELSE LET sorted_gals == SortedGals({ galleries[i] : i \in 1..Len(galleries) })
           reading == SelectSeq(sorted_gals, LAMBDA g : g.status = "Reading")
       IN  IF series.thumbnail_url = Some(ReadingSentinel)
           THEN IF reading # << >> THEN ThumbnailOf(reading[1].id)
                ELSE ThumbnailOf(sorted_gals[1].id)
           ELSE IF series.thumbnail_url \notin { None, Some(<< >>) }
           THEN Verbatim(series.thumbnail_url[1])
           ELSE ThumbnailOf(sorted_gals[1].id)

\* GET /series/{series_id}
view_series_page(series_id) ==
  IF ~HasId(db.series, series_id)
  THEN /\ result' = Response("view_series", 404, "HTTPException", "Series not found", << >>)
       /\ UNCHANGED << dataDirAbs, watchdog, clock, inflight, fs, db >>
  ELSE \E galleries \in Orders({ g \in db.galleries : g.series_id = series_id }) :
         /\ result' = Response("view_series", 200, "", "",
                               << series_id, get_series_artist_name(galleries),
                                  get_series_cover(ById(db.series, series_id), galleries) >>)
         /\ UNCHANGED << dataDirAbs, watchdog, clock, inflight, fs, db >>

\* GET /reader/{gallery_id}, lines 393-397
open_reader(gallery_id) ==
  IF ~HasId(db.galleries, gallery_id)
  THEN /\ result' = Response("reader", 404, "HTTPException", "Gallery not found", << >>)
       /\ UNCHANGED << dataDirAbs, watchdog, clock, inflight, fs, db >>
  ELSE LET gallery == ById(db.galleries, gallery_id)
       IN  /\ db' = [ db EXCEPT !.galleries =
                        WithRow(@, gallery, [ gallery EXCEPT !.status =
                                                IF @ = "New" THEN "Reading" ELSE @ ]) ]
           /\ result' = Response("reader", 200, "", "", << >>)
           /\ UNCHANGED << dataDirAbs, watchdog, clock, inflight, fs >>

MemberArtists == { << >>, << "a" >>, << "b" >> }

Member(id, artist, status, sort_order) ==
  [ GalleryRow(id, F_zip, PathJoin(PathJoin(LIBRARY_DIR, ImporterSanitize(artist)), F_zip),
               artist, 1, 0, << >>)
      EXCEPT !.status = status, !.sort_order = sort_order ]

\* the member sets of series 1: galleries 1..n, each with an artist, a
\* status and a place in the series
MemberSets ==
  UNION { { { Member(i, f[i][1], f[i][2], f[i][3]) : i \in 1..n } :
              f \in [ 1..n -> MemberArtists \X { "New", "Reading" } \X { 0, 1 } ] } :
          n \in 0..MaxMembers }

InitSeries ==
  /\ dataDirAbs = FALSE
  /\ fs = [ files |-> [ q \in { } |-> 0 ],
            dirs |-> { << >>, DATA_DIR, INPUT_DIR, LIBRARY_DIR, THUMBNAIL_DIR, LOG_DIR, BACKUP_DIR },
            thumbs |-> { } ]
  /\ \E members \in MemberSets :
       db = [ staged |-> { }, galleries |-> members, series |-> { SeriesRow(1, << "s" >>) },
              categories |-> { }, tags |-> { }, settings |-> { } ]
  /\ result = Response("start", 200, "", "", << >>)
  /\ inflight = [ w \in Workers |-> None ]
  /\ clock = StartTime
  /\ watchdog = WatchdogStart

ThumbnailUrls == { None, Some(<< >>), Some(ReadingSentinel), Some(<< "u" >>) }

SetSeriesThumbnail ==
  \E url \in ThumbnailUrls :
    update_series_metadata(1, [ Payload(FALSE, << >>) EXCEPT !.hasThumb = TRUE, !.thumbnail_url = url ], { })

ViewSeries == \E id \in 1..2 : view_series_page(id)

OpenReader == \E id \in 1..MaxMembers : open_reader(id)

NextSeries ==
  \/ SetSeriesThumbnail
  \/ ViewSeries
  \/ OpenReader

SpecSeries == InitSeries /\ [][NextSeries]_vars

MembersOf(b, series_id) == { g \in b.galleries : g.series_id = series_id }

\* the artist a series inherits from a set of members
InheritedArtist(members) ==
  LET named == { g.artist : g \in members } \ { << >> }
  IN  IF named = { } THEN Unknown
      ELSE IF \E a \in named : named = { a } THEN CHOOSE a \in named : TRUE
      ELSE Various

\* C19: the artist a series inherits is "Unknown" when no member has a
\* non-empty artist, that artist when exactly one distinct non-empty artist
\* occurs, and "Various" when more than one does; the order of the members
\* does not matter and computing it writes nothing.
C19_InheritedArtist ==
  [][ (result'.op = "view_series" /\ result'.status = 200) =>
        LET members == MembersOf(db, result'.value[1])
        IN  /\ result'.value[2] = InheritedArtist(members)
            /\ \A galleries \in Orders(members) :
                 get_series_artist_name(galleries) = InheritedArtist(members)
            /\ db' = db ]_vars

\* the page of a series whose two members have different artists
C19_Witness ==
  /\ result.op = "view_series"
  /\ result.status = 200
  /\ result.value[2] = Various
  /\ \E g, h \in MembersOf(db, 1) : g.artist = << "a" >> /\ h.artist = << "b" >>

\* the members in (sort_order, id) order
InSeriesOrder(members) == SortedGals(members)

\* the thumbnail of the first member, of those with the status when one is
\* given
FirstThumbnail(members) == ThumbnailOf(InSeriesOrder(members)[1].id)

FirstReadingThumbnail(members) ==
  LET reading == { g \in members : g.status = "Reading" }
  IN  IF reading # { } THEN FirstThumbnail(reading) ELSE FirstThumbnail(members)

ConcreteUrl(url) == url \notin { None, Some(<< >>), Some(ReadingSentinel) }

\* C20: the cover of a series is its thumbnail_url as stored when that is a
\* concrete url; with the sentinel it is the thumbnail of the first member,
\* in (sort_order, id) order, whose status is Reading, or of the first
\* member when none is; when thumbnail_url is unset it is the thumbnail of
\* the first member in (sort_order, id) order.
C20_SeriesCover ==
  [][ (result'.op = "view_series" /\ result'.status = 200) =>
        LET series == ById(db.series, result'.value[1])
            members == MembersOf(db, series.id)
            cover == result'.value[3]
        IN  /\ ConcreteUrl(series.thumbnail_url) => cover = Verbatim(series.thumbnail_url[1])
            /\ (series.thumbnail_url = Some(ReadingSentinel) /\ members # { }) =>
                 cover = FirstReadingThumbnail(members)
            /\ (series.thumbnail_url \in { None, Some(<< >>) } /\ members # { }) =>
                 cover = FirstThumbnail(members) ]_vars

(***************************************************************************)
(* SpecOrder: orderings submitted for series 1, whose members sit among    *)
(* galleries that belong to no series.                                     *)
(***************************************************************************)
\* galleries 1..n, each in series 1 or in none, each with a sort_order
ShelfSets ==
  UNION { { { [ Member(i, << "a" >>, "New", f[i][2]) EXCEPT !.series_id = f[i][1] ] : i \in 1..n } :
              f \in [ 1..n -> { 0, 1 } \X { 0, 1, 2 } ] } :
          n \in 0..MaxMembers }

InitOrder ==
  /\ dataDirAbs = FALSE
  /\ fs = [ files |-> [ q \in { } |-> 0 ],
            dirs |-> { << >>, DATA_DIR, INPUT_DIR, LIBRARY_DIR, THUMBNAIL_DIR, LOG_DIR, BACKUP_DIR },
            thumbs |-> { } ]
  /\ \E shelf \in ShelfSets :
       db = [ staged |-> { }, galleries |-> shelf, series |-> { SeriesRow(1, << "s" >>) },
              categories |-> { }, tags |-> { }, settings |-> { } ]
  /\ result = Response("start", 200, "", "", << >>)
  /\ inflight = [ w \in Workers |-> None ]
  /\ clock = StartTime
  /\ watchdog = WatchdogStart

\* payload["order"]: gallery ids, among them ids of other galleries, ids of
\* no gallery, and the same id twice
SubmittedOrders == UNION { [ 1..n -> 1..(MaxMembers + 1) ] : n \in 0..MaxMembers }

OrderPayload(order) == [ Payload(FALSE, << >>) EXCEPT !.hasOrder = TRUE, !.order = order ]

SubmitOrder == \E order \in SubmittedOrders : update_series_metadata(1, OrderPayload(order), { })

NextOrder ==
  \/ SubmitOrder
  \/ OpenReader

SpecOrder == InitOrder /\ [][NextOrder]_vars

\* C21: after an ordering was submitted for a series, the sort_order values
\* of its members are exactly 1..n for its n members, in the submitted
\* order, and no gallery outside the series has a changed sort_order.
C21_OrderDenseFromOne ==
  [][ result'.op = "update_series" =>
        \A order \in SubmittedOrders :
          update_series_metadata(1, OrderPayload(order), { }) =>
            LET members == MembersOf(db', 1)
                place(g) == CHOOSE i \in 1..Len(order) : order[i] = g.id
            IN  /\ { g.sort_order : g \in members } = 1..Cardinality(members)
                /\ \A g, h \in members :
                     (/\ \E i \in 1..Len(order) : order[i] = g.id
                      /\ \E i \in 1..Len(order) : order[i] = h.id
                      /\ place(g) < place(h)) => g.sort_order < h.sort_order
                /\ \A g \in db.galleries : g.series_id # 1 => g \in db'.galleries ]_vars


(***************************************************************************)
(* Series rows and the galleries that refer to them.                       *)
(***************************************************************************)
Referenced(b, s) == \E g \in b.galleries : g.series_id = s.id

\* C22: a Series row exists only while at least one gallery refers to it:
\* after every completed operation, the deletion of a gallery and the
\* update that moves a gallery to another series or to none included, every
\* row of the series table has a member.
C22_SeriesHasMember == \A s \in db.series : Referenced(db, s)


(***************************************************************************)
(* main.py: the settings and the backup scheduler.                         *)
(***************************************************************************)
DecimalDigits == << "0", "1", "2", "3", "4", "5", "6", "7", "8", "9" >>

\* the character U+00B2: str.isdigit accepts it, int refuses it
SuperscriptTwo == "sup2"

\* str(n) of a natural number
RECURSIVE Str(_)
Str(n) ==
  IF n < 10 THEN << DecimalDigits[n + 1] >>
  ELSE Str(n \div 10) \o << DecimalDigits[(n % 10) + 1] >>

\* str.isdigit
IsDigitString(s) ==
  /\ s # << >>
  /\ \A i \in 1..Len(s) :
       s[i] = SuperscriptTwo \/ \E k \in 1..Len(DecimalDigits) : DecimalDigits[k] = s[i]

\* int(s) raises ValueError on a digit that is not a decimal
IntRaises(s) == \E i \in 1..Len(s) : s[i] = SuperscriptTwo

DigitValue(c) == (CHOOSE k \in 1..Len(DecimalDigits) : DecimalDigits[k] = c) - 1

\* int(s) of a string of decimals
RECURSIVE ParseInt(_)
ParseInt(s) ==
  IF s = << >> THEN 0
  ELSE ParseInt(SubSeq(s, 1, Len(s) - 1)) * 10 + DigitValue(s[Len(s)])

\* the rows of the settings table
HasSetting(b, key) == \E s \in b.settings : s.key = key
SettingValue(b, key) == (CHOOSE s \in b.settings : s.key = key).value
WithSetting(rows, key, value) ==
  { s \in rows : s.key # key } \cup { [ key |-> key, value |-> value ] }

\* POST /api/settings with a payload of one key
save_settings_api(key, value) ==
  /\ db' = [ db EXCEPT !.settings = WithSetting(@, key, value) ]
  /\ result' = Response("save_settings", 200, "", "", << >>)
  /\ UNCHANGED << dataDirAbs, watchdog, clock, inflight, fs >>

TrueText == << "t", "r", "u", "e" >>
FalseText == << "f", "a", "l", "s", "e" >>

\* lines 184-186
Enabled(b) ==
  HasSetting(b, "auto_backup_enabled") /\ SettingValue(b, "auto_backup_enabled") = TrueText

NumericSetting(b, key) == HasSetting(b, key) /\ IsDigitString(SettingValue(b, key))

DaysFreq(b) ==
  IF NumericSetting(b, "auto_backup_frequency")
  THEN ParseInt(SettingValue(b, "auto_backup_frequency")) ELSE DefaultFrequencyDays

LastTs(b) ==
  IF NumericSetting(b, "last_backup_timestamp")
  THEN ParseInt(SettingValue(b, "last_backup_timestamp")) ELSE 0

\* int() of line 185 or 186 raises: the except of line 192 ends the wake
SettingsRaise(b) ==
  \/ NumericSetting(b, "auto_backup_frequency") /\ IntRaises(SettingValue(b, "auto_backup_frequency"))
  \/ NumericSetting(b, "last_backup_timestamp") /\ IntRaises(SettingValue(b, "last_backup_timestamp"))

\* the comparison of line 189, as the scheduler is specified to make it
DueInclusive(b, now) == (now - LastTs(b)) >= (DaysFreq(b) * DaySeconds)

\* line 189
Due(b, now) == (now - LastTs(b)) > (DaysFreq(b) * DaySeconds)

\* autobackup_<moment>.json; the moment is written in seconds here, not as
\* %Y-%m-%d_%H%M%S
BackupName(now) ==
  << "a", "u", "t", "o", "b", "a", "c", "k", "u", "p", "_" >> \o Str(now)
    \o << ".", "j", "s", "o", "n" >>

BackupPath(now) == PathJoin(BACKUP_DIR, BackupName(now))

\* the export of line 164 or the open of line 167 raises
ExportRaises(d, exportOk) == ~exportOk \/ ~(PathExists(d, BACKUP_DIR) /\ DirAt(d, BACKUP_DIR))

\* a failed export that stamps the time all the same
StampedOnFailure(d, b, now, exportOk) ==
  [ fs |-> IF ExportRaises(d, exportOk) THEN d
           ELSE [ d EXCEPT !.files = WithFile(@, Abspath(BackupPath(now)), 0) ],
    db |-> [ b EXCEPT !.settings = WithSetting(@, "last_backup_timestamp", Str(now)) ],
    logged |-> IF ExportRaises(d, exportOk) THEN "Auto-backup failed" ELSE "" ]

\* perform_auto_backup: the disk and the rows afterwards
perform_auto_backup(d, b, now, exportOk) ==
  IF ExportRaises(d, exportOk)
  THEN [ fs |-> d, db |-> b, logged |-> "Auto-backup failed" ]
  ELSE [ fs |-> [ d EXCEPT !.files = WithFile(@, Abspath(BackupPath(now)), 0) ],
         db |-> [ b EXCEPT !.settings = WithSetting(@, "last_backup_timestamp", Str(now)) ],
         logged |-> "" ]

\* one turn of backup_scheduler_loop; the value of the result is whether
\* perform_auto_backup was called
backup_scheduler_loop(exportOk) ==
  LET now == clock + WakeSeconds
      ran == perform_auto_backup(fs, db, now, exportOk)
  IN  /\ clock' = now
      /\ IF SettingsRaise(db)
         THEN /\ result' = Response("backup_scheduler", 0, "ValueError", "", << FALSE >>)
              /\ UNCHANGED << fs, db >>
         ELSE IF Enabled(db) /\ Due(db, now)
         THEN /\ fs' = ran.fs
              /\ db' = ran.db
              /\ result' = Response("backup_scheduler", 0, "", ran.logged, << TRUE >>)
         ELSE /\ result' = Response("backup_scheduler", 0, "", "", << FALSE >>)
              /\ UNCHANGED << fs, db >>
      /\ UNCHANGED << dataDirAbs, watchdog, inflight >>

(***************************************************************************)
(* SpecBackup: the scheduler and the settings page.                        *)
(***************************************************************************)
MaxWakes == 26

\* the timestamp that makes a daily backup fall due, to the second, at the
\* first wake
DayBeforeFirstWake == StartTime + WakeSeconds - DaySeconds

SettingRows(key, values) ==
  { { } } \cup { { [ key |-> key, value |-> v ] } : v \in values }

FrequencyTexts == { << "1" >>, << "x" >>, << SuperscriptTwo >> }

InitBackup ==
  /\ dataDirAbs \in BOOLEAN
  /\ fs = [ files |-> [ q \in { } |-> 0 ],
            dirs |-> { << >>, DATA_DIR, INPUT_DIR, LIBRARY_DIR, THUMBNAIL_DIR, LOG_DIR, BACKUP_DIR },
            thumbs |-> { } ]
  /\ \E e \in SettingRows("auto_backup_enabled", { TrueText }),
        f \in SettingRows("auto_backup_frequency", { << "1" >> }),
        l \in SettingRows("last_backup_timestamp", { << "x" >>, Str(DayBeforeFirstWake) }) :
       db = [ staged |-> { }, galleries |-> { }, series |-> { },
              categories |-> { }, tags |-> { }, settings |-> e \cup f \cup l ]
  /\ result = Response("start", 200, "", "", << >>)
  /\ inflight = [ w \in Workers |-> None ]
  /\ clock = StartTime
  /\ watchdog = WatchdogStart

SchedulerWakes ==
  /\ clock < StartTime + MaxWakes * WakeSeconds
  /\ \E exportOk \in BOOLEAN : backup_scheduler_loop(exportOk)

SaveSettings ==
  \/ \E v \in { TrueText, FalseText } : save_settings_api("auto_backup_enabled", v)
  \/ \E v \in FrequencyTexts : save_settings_api("auto_backup_frequency", v)

UserRemovesBackupDir ==
  /\ DirAt(fs, BACKUP_DIR) /\ DirEmpty(fs, Abspath(BACKUP_DIR))
  /\ fs' = Rmdir(fs, BACKUP_DIR)
  /\ UNCHANGED << dataDirAbs, watchdog, clock, inflight, db, result >>

UserMakesBackupDir ==
  /\ ~DirAt(fs, BACKUP_DIR)
  /\ fs' = MakeDirs(fs, BACKUP_DIR)
  /\ UNCHANGED << dataDirAbs, watchdog, clock, inflight, db, result >>

NextBackup ==
  \/ SchedulerWakes
  \/ SaveSettings
  \/ UserRemovesBackupDir
  \/ UserMakesBackupDir

SpecBackup == InitBackup /\ [][NextBackup]_vars

Wakes == clock' # clock

BackupFiles(d) == { p \in DOMAIN d.files : IsPrefix(Abspath(BACKUP_DIR), p) }

\* C23: at every wake of the scheduler a backup is performed exactly when
\* auto-backup is enabled and now - lastBackupTimestamp >= frequencyDays *
\* 86400 (7 days and 0 standing in for an absent or non-numeric setting),
\* and a backup that succeeds leaves the current time in lastBackupTimestamp.
C23_BackupWhenDue ==
  [][ Wakes =>
        /\ result'.value[1] = (Enabled(db) /\ DueInclusive(db, clock'))
        /\ BackupFiles(fs') # BackupFiles(fs) => LastTs(db') = clock' ]_vars


(***************************************************************************)
(* SpecBackupLive: the scheduler thread keeps waking (the loop of line 176 *)
(* never ends and nothing it raises leaves the try of lines 178-192), and  *)
(* the exports do not fail for ever: the one at the last wake of the       *)
(* horizon succeeds.                                                       *)
(***************************************************************************)
LastWake == StartTime + MaxWakes * WakeSeconds

SchedulerKeepsWaking ==
  /\ clock < LastWake
  /\ \E exportOk \in BOOLEAN :
       /\ exportOk \/ clock + WakeSeconds < LastWake
       /\ backup_scheduler_loop(exportOk)

SwitchesBackups ==
  \E v \in { TrueText, FalseText } : save_settings_api("auto_backup_enabled", v)

NextBackupLive ==
  \/ SchedulerKeepsWaking
  \/ SwitchesBackups

SpecBackupLive ==
  InitBackup /\ [][NextBackupLive]_vars /\ WF_vars(SchedulerKeepsWaking)

ExportFailed == result'.op = "backup_scheduler" /\ result'.detail = "Auto-backup failed"

\* a backup will be attempted at the next wake
Pending ==
  /\ clock < LastWake
  /\ Enabled(db) /\ ~SettingsRaise(db) /\ Due(db, clock + WakeSeconds)

\* the wake that has just ended wrote its backup
Written ==
  /\ Abspath(BackupPath(clock)) \in BackupFiles(fs)
  /\ LastTs(db) = clock

\* C24: a failed export leaves lastBackupTimestamp and the backups on disk
\* as they were and the scheduler goes on; at the wake that follows a failed
\* export, with auto-backup still enabled, the export is attempted again;
\* and with exports that do not fail for ever a backup that is due is
\* eventually written, unless auto-backup is switched off.
C24_FailedExportRetried ==
  /\ [][ Wakes /\ ExportFailed => db' = db /\ fs' = fs ]_vars
  /\ [][ Wakes /\ result.detail = "Auto-backup failed" /\ Enabled(db) => result'.value[1] ]_vars
  /\ Pending ~> (Written \/ ~Enabled(db))

C24_Witness ==
  /\ result.detail = "Auto-backup failed"
  /\ Enabled(db) /\ clock < LastWake
  /\ BackupFiles(fs) = { }


(***************************************************************************)
(* SpecGuess: one file at a time is put into the input directory, scanned  *)
(* and taken away again; the names are made of brackets, a letter and a    *)
(* space, with an extension in lower or in upper case.                     *)
(***************************************************************************)
MaxStem == 4

GuessChars == { "[", "]", "a", " " }

GuessExtensions == { ExtZip, << ".", "C", "B", "Z" >> }

GuessNames ==
  { stem \o ext : stem \in UNION { [ 1..n -> GuessChars ] : n \in 1..MaxStem },
                  ext \in GuessExtensions }

CopiesForGuess ==
  /\ PhysicalFiles(fs) = { } /\ db.staged = { }
  /\ \E f \in GuessNames : UserCopiesInputFile(f)

RemovesGuessed == \E f \in GuessNames : UserDeletesInputFile(f)

NextGuess ==
  \/ CopiesForGuess
  \/ RemovesGuessed
  \/ ScanAll

SpecGuess == Init /\ [][NextGuess]_vars

\* the name without its extension of four characters
Stem(filename) == SubSeq(filename, 1, Len(filename) - 4)

\* the form [X]Y
Bracketed(filename) == Head(filename) = "[" /\ Find(filename, "]") > 0

BetweenBrackets(filename) == SubSeq(filename, 2, Find(filename, "]") - 1)

AfterBracket(filename) == SubSeq(Stem(filename), Find(filename, "]") + 1, Len(Stem(filename)))

\* C25: every staged row of a file named [X]Y has the trimmed X as its
\* suggested artist and Y without the extension as its suggested title (the
\* spaces around the title aside); every other row has no suggested artist
\* and the filename without its extension as its title; the extension goes
\* whatever the case of its letters.
C25_GuessFromBrackets ==
  \A r \in db.staged :
    IF Bracketed(r.filename)
    THEN /\ r.suggested_artist = Some(Strip(BetweenBrackets(r.filename)))
         /\ Strip(r.suggested_title) = Strip(AfterBracket(r.filename))
    ELSE /\ r.suggested_artist = None
         /\ r.suggested_title = Stem(r.filename)


(***************************************************************************)
(* The stored path and the file of a gallery across an update.             *)
(***************************************************************************)
SeriesNameOf(b, g) == IF g.series_id = 0 THEN << >> ELSE ById(b.series, g.series_id).name

\* libraryRoot/sanitize(artist)/[sanitize(series)/]filename, with the
\* sanitizer that move_gallery_file uses
TargetPath(b, g) == PathJoin(MoveTargetDir(g.artist, SeriesNameOf(b, g)), g.filename)

\* the row is at its canonical path and so is the file
IndexAndFileAgree(d, b, g) ==
  /\ g.path = TargetPath(b, g)
  /\ PathExists(d, g.path) /\ FileAt(d, g.path)

\* C26: update_gallery_metadata writes the index and moves the file as a
\* unit: after it either the stored path is libraryRoot/sanitize(artist)/
\* [sanitize(series)/]filename with the file there, or (the file could not
\* be moved) the row keeps the artist, the series and the path it had and
\* the file stays where it was.
C26_UpdateMovesAsUnit ==
  [][ result'.op = "update_gallery" =>
        \A g \in db.galleries :
          HasId(db'.galleries, g.id) /\
            LET after == ById(db'.galleries, g.id)
            IN  \/ IndexAndFileAgree(fs', db', after)
                \/ /\ after.artist = g.artist /\ after.series_id = g.series_id
                   /\ after.path = g.path
                   /\ FileAt(fs, g.path) = FileAt(fs', g.path) ]_vars


\* the series of the row has another name after the step
Renamed(g) ==
  /\ g.series_id # 0
  /\ HasId(db'.series, g.series_id)
  /\ ById(db'.series, g.series_id).name # ById(db.series, g.series_id).name

\* C27: update_series_metadata with a new name leaves every member at
\* libraryRoot/sanitize(artist)/sanitize(newName)/filename, and whether it
\* answers success or an error, every gallery whose stored path was the
\* place of its file still has its file at its stored path.
C27_RenameKeepsPathsTrue ==
  [][ result'.op = "update_series" =>
        \A g \in db.galleries :
          LET after == ById(db'.galleries, g.id)
          IN  /\ FileAt(fs, g.path) => FileAt(fs', after.path)
              /\ (FileAt(fs, g.path) /\ Renamed(g)) => after.path = TargetPath(db', after) ]_vars


(***************************************************************************)
(* SpecCollide: archives of one name, uploaded again and again, imported   *)
(* and relocated under two artists and deleted.                            *)
(***************************************************************************)
\* the two galleries whose archives collide
CollidingIds == { 1, 2 }

CollideRequests ==
  { Request(a, << >>, TRUE, << >>, << >>) : a \in { << "a" >>, << "b" >> } }

UploadAgain == \E archive \in { 1, 2 } : upload_gallery_api(F_zip, archive)

ImportOnto ==
  \E id \in 1..MaxStagedId, r \in CollideRequests :
    /\ import_comic(id, r, TRUE, TRUE)
    /\ \A g \in db'.galleries : g.id \in CollidingIds

RelocateOnto ==
  \E id \in CollidingIds, r \in CollideRequests : update_gallery_metadata(id, r, TRUE)

DeleteEither == \E id \in CollidingIds : delete_gallery(id, TRUE)

NextCollide ==
  \/ UploadAgain
  \/ ScanAll
  \/ ImportOnto
  \/ RelocateOnto
  \/ DeleteEither

SpecCollide == Init /\ [][NextCollide]_vars

\* the rows other than `id` whose archive lies at the path p
Occupants(d, b, id, p) ==
  { h \in b.galleries : h.id # id /\ Abspath(h.path) = Abspath(p) /\ FileAt(d, h.path) }

\* the step is the import of the staged row `id` onto an occupied path
ImportsOnto(id, r) ==
  /\ HasId(db.staged, id) /\ FileAt(fs, ById(db.staged, id).path)
  /\ Occupants(fs, db, 0, ImportDestPath(r, ById(db.staged, id).path)) # { }
  /\ import_comic(id, r, TRUE, TRUE)

\* the step is the relocation of the gallery `id` onto an occupied path
RelocatesOnto(id, r) ==
  /\ HasId(db.galleries, id) /\ FileAt(fs, ById(db.galleries, id).path)
  /\ Occupants(fs, db, id, PathJoin(MoveTargetDir(r.artist, r.series),
                                    Basename(ById(db.galleries, id).path))) # { }
  /\ update_gallery_metadata(id, r, TRUE)

\* two rows share the path p, which holds the archive a
SharedBy(d, b, p, a) ==
  /\ Cardinality({ g \in b.galleries : Abspath(g.path) = Abspath(p) }) >= 2
  /\ FileAt(d, p) /\ d.files[Abspath(p)] = a

\* C28: an import or a relocation onto a path that holds the archive of
\* another gallery ends without error, leaves the moved archive at that
\* path in place of the one that was there, and leaves two rows with that
\* path; the deletion of a row whose path another row shares leaves the
\* other row in the table with no file at its path.
C28_CollisionOverwrites ==
  /\ [][ result'.op = "import" =>
           \A id \in 1..MaxStagedId, r \in CollideRequests :
             ImportsOnto(id, r) =>
               /\ result'.status = 200
               /\ SharedBy(fs', db', ImportDestPath(r, ById(db.staged, id).path),
                           fs.files[Abspath(ById(db.staged, id).path)]) ]_vars
  /\ [][ result'.op = "update_gallery" =>
           \A id \in CollidingIds, r \in CollideRequests :
             RelocatesOnto(id, r) =>
               /\ result'.status = 200
               /\ SharedBy(fs', db', ById(db'.galleries, id).path,
                           fs.files[Abspath(ById(db.galleries, id).path)]) ]_vars
  /\ [][ result'.op = "delete_gallery" =>
           \A g \in db.galleries \ db'.galleries :
             \A h \in Occupants(fs, db, g.id, g.path) :
               h \in db'.galleries /\ ~FileAt(fs', h.path) ]_vars

C28_Witness ==
  /\ result.op = "delete_gallery" /\ result.status = 200
  /\ \E h \in db.galleries : ~FileAt(fs, h.path)


(***************************************************************************)
(* SpecImportRace: two threads run import_comic.  Each request has its own *)
(* session (get_db, main.py lines 61-66) and its own SQLite connection:    *)
(* the rows a session flushes are seen by no other session before the      *)
(* commit, and from its first INSERT to its commit or rollback a session   *)
(* holds the write lock of the database.                                   *)
(***************************************************************************)
ImportRunning(w) == inflight[w] # None /\ inflight[w][1].op = "import"

\* another session has flushed and neither committed nor rolled back
WriteLockHeld(w) ==
  \E v \in Workers \ { w } : ImportRunning(v) /\ inflight[v][1].flushed

\* the rows as the session of a running import sees them: the committed rows
\* and the StagedFile object it has loaded
SessionRows(b, staged_file) == [ b EXCEPT !.staged = @ \cup { staged_file } ]

\* the committed rows after the session has ended: a loaded object that was
\* deleted by another session does not come back
CommittedRows(b, after) == [ after EXCEPT !.staged = { r \in @ : r \in b.staged } ]

\* importer.py lines 17-28 in thread w
ImportReads(w, staged_id, meta) ==
  /\ inflight[w] = None
  /\ IF ~HasId(db.staged, staged_id)
     THEN /\ result' = Response("import", 500, "ValueError", "Staged file not found", << >>)
          /\ UNCHANGED << fs, inflight >>
     ELSE /\ inflight' = [ inflight EXCEPT ![w] =
                             Some([ op |-> "import", staged_file |-> ById(db.staged, staged_id),
                                    meta |-> meta, flushed |-> FALSE ]) ]
          /\ fs' = MakeDirs(fs, ImportDestFolder(meta))
          /\ UNCHANGED result
  /\ UNCHANGED << dataDirAbs, watchdog, clock, db >>

\* the first INSERT of the import comes before the read of meta.category:
\* the new series of lines 40-42
WritesFirst(b, meta) ==
  meta.hasCategory \/ (meta.series # << >> /\ ~HasName(b.series, meta.series))

\* what ends the import before the move of line 85, "" if nothing does
EndsBeforeMove(d, b, read) ==
  LET out == import_gallery(d, SessionRows(b, read.staged_file), read.staged_file.id,
                            read.meta, TRUE, TRUE)
  IN  IF out.exc \in { "AttributeError", "IntegrityError" } THEN out
      ELSE [ out EXCEPT !.exc = "" ]

\* importer.py lines 34-81 in thread w: the rows are flushed, or the
\* request ends with the exception of line 48 or of the flush
ImportFlushes(w) ==
  /\ ImportRunning(w) /\ ~inflight[w][1].flushed
  /\ LET read == inflight[w][1]
         early == EndsBeforeMove(fs, db, read)
     IN  /\ WritesFirst(db, read.meta) => ~WriteLockHeld(w)
         /\ IF early.exc # ""
            THEN /\ result' = Response("import", 500, early.exc, early.detail, << >>)
                 /\ inflight' = [ inflight EXCEPT ![w] = None ]
            ELSE /\ inflight' = [ inflight EXCEPT ![w] = Some([ read EXCEPT !.flushed = TRUE ]) ]
                 /\ UNCHANGED result
  /\ UNCHANGED << dataDirAbs, watchdog, clock, fs, db >>

\* the INSERT waits for the write lock longer than the connection's timeout
ImportLockTimesOut(w) ==
  /\ ImportRunning(w) /\ ~inflight[w][1].flushed
  /\ WritesFirst(db, inflight[w][1].meta) /\ WriteLockHeld(w)
  /\ result' = Response("import", 500, "OperationalError", "database is locked", << >>)
  /\ inflight' = [ inflight EXCEPT ![w] = None ]
  /\ UNCHANGED << dataDirAbs, watchdog, clock, fs, db >>

\* importer.py lines 84-124 in thread w: the move, then the commit or the
\* rollback
ImportFinishes(w, moveOk, thumbOk) ==
  /\ ImportRunning(w) /\ inflight[w][1].flushed
  /\ LET read == inflight[w][1]
         out == import_gallery(fs, SessionRows(db, read.staged_file), read.staged_file.id,
                               read.meta, moveOk, thumbOk)
     IN  /\ fs' = out.fs
         /\ db' = CommittedRows(db, out.db)
         /\ result' = IF out.exc = ""
                      THEN Response("import", 200, "", "", << out.gallery[1].id >>)
                      ELSE Response("import", 500, out.exc, out.detail, << >>)
  /\ inflight' = [ inflight EXCEPT ![w] = None ]
  /\ UNCHANGED << dataDirAbs, watchdog, clock >>

\* one archive is uploaded, once
UploadOnce ==
  /\ DOMAIN fs.files = { } /\ db.staged = { } /\ db.galleries = { }
  /\ \A w \in Workers : inflight[w] = None
  /\ upload_gallery_api(F_zip, 1)

ImportBegins ==
  \E w \in Workers, id \in 1..MaxStagedId, r \in Requests : ImportReads(w, id, r)

ImportFlush == \E w \in Workers : ImportFlushes(w)

ImportWaitsTooLong == \E w \in Workers : ImportLockTimesOut(w)

ImportEnds ==
  \E w \in Workers, moveOk \in BOOLEAN, thumbOk \in BOOLEAN :
    ImportFinishes(w, moveOk, thumbOk) /\ Bounded(db')

NextImportRace ==
  \/ UploadOnce
  \/ ScanAll
  \/ ImportBegins
  \/ ImportFlush
  \/ ImportWaitsTooLong
  \/ ImportEnds

SpecImportRace == InitDefault /\ [][NextImportRace]_vars

LibraryFiles(d) == { p \in DOMAIN d.files : IsPrefix(Abspath(LIBRARY_DIR), p) }

RaceArtistDir == PathJoin(LIBRARY_DIR, << "a" >>)
RaceSeriesDir == PathJoin(RaceArtistDir, << "s" >>)

\* gallery 1 of series 1 "s" lies at library/a/s/f.zip; series 2 "u" is empty
RaceRows ==
  [ staged |-> { },
    galleries |-> { GalleryRow(1, F_zip, PathJoin(RaceSeriesDir, F_zip), << "a" >>, 1, 0, << >>) },
    series |-> { SeriesRow(1, << "s" >>), SeriesRow(2, << "u" >>) },
    categories |-> { }, tags |-> { }, settings |-> { } ]

InitRelocate ==
  /\ dataDirAbs \in BOOLEAN
  /\ fs = [ files |-> [ q \in { PathJoin(RaceSeriesDir, F_zip) } |-> 1 ],
            dirs |-> { << >>, DATA_DIR, INPUT_DIR, LIBRARY_DIR, THUMBNAIL_DIR, LOG_DIR, BACKUP_DIR,
                       RaceArtistDir, RaceSeriesDir },
            thumbs |-> { 1 } ]
  /\ db = RaceRows
  /\ result = Response("start", 200, "", "", << >>)
  /\ inflight = [ w \in Workers |-> None ]
  /\ clock = StartTime
  /\ watchdog = WatchdogStart

\* another session holds the write lock: it has flushed a new series
\* (main.py line 487) and has not ended
LockedByOther(w) ==
  \E v \in Workers \ { w } : inflight[v] # None /\ inflight[v][1].locked

\* the value a commit leaves in a column: the session's, if the session
\* changed what it had loaded
Updated(loaded, new, committed) == IF new = loaded THEN committed ELSE new

\* main.py lines 472-512 in thread w
UpdateReads(w, gallery_id, request) ==
  /\ inflight[w] = None
  /\ LET flushes == request.series # << >> /\ ~HasName(db.series, request.series)
     IN  IF ~HasId(db.galleries, gallery_id)
         THEN /\ result' = Response("update_gallery", 404, "HTTPException", "Gallery not found", << >>)
              /\ UNCHANGED inflight
         ELSE IF flushes /\ LockedByOther(w)
         THEN /\ result' = Response("update_gallery", 500, "OperationalError", "database is locked", << >>)
              /\ UNCHANGED inflight
         ELSE IF ~request.hasCategory
         THEN /\ result' = Response("update_gallery", 500, "AttributeError",
                                    "'ImportRequest' object has no attribute 'category'", << >>)
              /\ UNCHANGED inflight
         ELSE /\ inflight' = [ inflight EXCEPT ![w] =
                   Some([ op |-> "update_gallery", moved |-> FALSE, locked |-> flushes,
                          loaded |-> { ById(db.galleries, gallery_id) }, request |-> request,
                          paths |-> { } ]) ]
              /\ UNCHANGED result
  /\ UNCHANGED << dataDirAbs, watchdog, clock, fs, db >>

\* main.py lines 515-517 in thread w: move_gallery_file on the loaded object
UpdateMoves(w, moveOk) ==
  /\ inflight[w] # None /\ inflight[w][1].op = "update_gallery" /\ ~inflight[w][1].moved
  /\ LET ses == inflight[w][1]
         gallery == CHOOSE g \in ses.loaded : TRUE
         moved == move_gallery_file(dataDirAbs, fs, gallery, ses.request.artist,
                                    ses.request.series, moveOk)
     IN  /\ fs' = moved.fs
         /\ inflight' = [ inflight EXCEPT ![w] =
              Some([ ses EXCEPT !.moved = TRUE,
                                !.paths = IF moved.gallery.path = gallery.path THEN { }
                                          ELSE { << gallery.id, moved.gallery.path >> } ]) ]
  /\ UNCHANGED << dataDirAbs, watchdog, clock, db, result >>

\* main.py lines 524-551 in thread w: the series and its galleries are
\* loaded and every member is moved
RenameMoves(w, series_id, payload, refused) ==
  /\ inflight[w] = None
  /\ IF ~HasId(db.series, series_id)
     THEN /\ result' = Response("update_series", 404, "HTTPException", "Series not found", << >>)
          /\ UNCHANGED << fs, inflight >>
     ELSE LET members == { g \in db.galleries : g.series_id = series_id }
              moved == MoveMembers(dataDirAbs, fs, ById_Ordered(members), payload.name, refused)
          IN  /\ fs' = moved.fs
              /\ inflight' = [ inflight EXCEPT ![w] =
                   Some([ op |-> "update_series", moved |-> TRUE, locked |-> FALSE,
                          loaded |-> { ById(db.series, series_id) }, request |-> payload,
                          paths |-> { << g.id, g.path >> : g \in moved.galleries \ members } ]) ]
              /\ UNCHANGED result
  /\ UNCHANGED << dataDirAbs, watchdog, clock, db >>

\* the paths a session has assigned, written over the committed rows
WithPaths(gs, paths) ==
  { IF \E p \in paths : p[1] = g.id
    THEN [ g EXCEPT !.path = (CHOOSE p \in paths : p[1] = g.id)[2] ]
    ELSE g : g \in gs }

\* the rows after the commit of main.py line 519
GalleryCommitted(b, ses) ==
  LET loaded == CHOOSE g \in ses.loaded : TRUE
      r == ses.request
      series1 == FoundOrCreated(b.series, r.series, SeriesRow(NextId(b.series), r.series))
      names == StrippedTags(r.tags)
      tags1 == TagsFlushed(b.tags, PendingTags(b.tags, names))
  IN  [ b EXCEPT
          !.series = series1, !.tags = tags1,
          !.galleries =
            { IF g.id # loaded.id THEN g
              ELSE [ g EXCEPT
                       !.artist = Updated(loaded.artist, r.artist, @),
                       !.series_id = Updated(loaded.series_id, IdOfName(series1, r.series), @),
                       !.tags = TagIds(tags1, names) ] : g \in WithPaths(@, ses.paths) } ]

\* the rows after the commit of main.py line 553
SeriesCommitted(b, ses) ==
  LET loaded == CHOOSE s \in ses.loaded : TRUE
  IN  [ b EXCEPT
          !.series = { IF s.id # loaded.id THEN s
                       ELSE [ s EXCEPT !.name = Updated(loaded.name, ses.request.name, @) ] : s \in @ },
          !.galleries = WithPaths(@, ses.paths) ]

\* the commit is refused: a new tag named twice, or the name of another series
CommitRaises(b, ses) ==
  IF ses.op = "update_gallery"
  THEN FlushRaises(PendingTags(b.tags, StrippedTags(ses.request.tags)))
  ELSE \E o \in b.series : o.id \notin { s.id : s \in ses.loaded } /\ o.name = ses.request.name

\* db.commit() in thread w, with nobody else holding the write lock
RelocateCommits(w) ==
  /\ inflight[w] # None /\ inflight[w][1].moved
  /\ ~LockedByOther(w)
  /\ LET ses == inflight[w][1]
     IN  IF CommitRaises(db, ses)
         THEN /\ result' = Response(ses.op, 500, "IntegrityError", "UNIQUE constraint failed", << >>)
              /\ UNCHANGED db
         ELSE /\ db' = IF ses.op = "update_gallery" THEN GalleryCommitted(db, ses)
                       ELSE SeriesCommitted(db, ses)
              /\ result' = Response(ses.op, 200, "", "", << >>)
  /\ inflight' = [ inflight EXCEPT ![w] = None ]
  /\ UNCHANGED << dataDirAbs, watchdog, clock, fs >>

\* db.commit() in thread w waits for the write lock longer than the
\* connection's timeout: the session is rolled back
CommitTimesOut(w) ==
  /\ inflight[w] # None /\ inflight[w][1].moved
  /\ LockedByOther(w)
  /\ result' = Response(inflight[w][1].op, 500, "OperationalError", "database is locked", << >>)
  /\ inflight' = [ inflight EXCEPT ![w] = None ]
  /\ UNCHANGED << dataDirAbs, watchdog, clock, fs, db >>

RaceRequests ==
  { Request(<< "b" >>, << "s" >>, TRUE, << >>, << >>),
    Request(<< "a" >>, << "v" >>, TRUE, << >>, << >>),
    Request(<< "b" >>, << >>, TRUE, << >>, << << "x" >>, << "x" >> >>),
    Request(<< "b" >>, << "s" >>, FALSE, << >>, << >>) }

RacePayloads == { Payload(TRUE, << "t" >>), Payload(TRUE, << "u" >>) }

\* the requests that race start from the rows of InitRelocate
UpdateBegins ==
  /\ db = RaceRows
  /\ \E w \in Workers, id \in 1..MaxGalleryId, r \in RaceRequests : UpdateReads(w, id, r)

UpdateMovesFile == \E w \in Workers, moveOk \in BOOLEAN : UpdateMoves(w, moveOk)

RenameBegins ==
  /\ db = RaceRows
  /\ \E w \in Workers, id \in 1..MaxSeriesId, p \in RacePayloads, refused \in SUBSET (1..MaxGalleryId) :
    RenameMoves(w, id, p, refused)

RelocateCommit ==
  \E w \in Workers : RelocateCommits(w)

RelocateWaitsTooLong == \E w \in Workers : CommitTimesOut(w)

NextRelocateRace ==
  \/ UpdateBegins
  \/ UpdateMovesFile
  \/ RenameBegins
  \/ RelocateCommit
  \/ RelocateWaitsTooLong

SpecRelocateRace == InitRelocate /\ [][NextRelocateRace]_vars

Quiet == \A w \in Workers : inflight[w] = None

\* C30: however two requests that relocate the file of one gallery
\* interleave, once both have ended the stored path of the gallery is the
\* place of its file and the file lies at exactly one place.
C30_RaceLeavesOnePlace ==
  Quiet =>
    \A g \in db.galleries :
      /\ PathExists(fs, g.path) /\ FileAt(fs, g.path)
      /\ LibraryFiles(fs) = { Abspath(g.path) }

(***************************************************************************)
(* SpecTags: imports and edits whose tag lists repeat names, carry blank   *)
(* names and name rows that exist already.                                 *)
(***************************************************************************)
TagX == << "x" >>

\* the tag lists of the requests: none, one name, one name twice, a name
\* and the same name with a space before it, a blank and an empty name
TagLists ==
  { << >>, << TagX >>, << TagX, TagX >>, << TagX, << " " >> \o TagX >>,
    << << " " >>, << >> >> }

TagRequests ==
  { Request(<< "a" >>, sc[1], TRUE, sc[2], t) :
      sc \in { << << >>, << >> >>, << << "s" >>, << "c" >> >> }, t \in TagLists }

TagPayload(tagNames) == [ Payload(FALSE, << >>) EXCEPT !.hasTags = TRUE, !.tags = tagNames ]

ImportTagged ==
  \E id \in 1..MaxStagedId, r \in TagRequests :
    import_comic(id, r, TRUE, TRUE) /\ Bounded(db')

UpdateGalleryTagged ==
  \E id \in 1..MaxGalleryId, r \in TagRequests :
    update_gallery_metadata(id, r, TRUE) /\ Bounded(db')

RetagSeries ==
  \E id \in 1..MaxSeriesId, t \in TagLists : update_series_metadata(id, TagPayload(t), { })

NextTags ==
  \/ Upload
  \/ Scan
  \/ ImportTagged
  \/ UpdateGalleryTagged
  \/ RetagSeries

SpecTags == InitDefault /\ [][NextTags]_vars

\* the names of a list
Range(l) == { l[i] : i \in 1..Len(l) }

\* the names an import looks up, and the names the update handlers look up
NamedByImport(tagNames) == { n \in Range(tagNames) : Strip(n) # << >> }
NamedByUpdate(tagNames) == { Strip(n) : n \in Range(tagNames) } \ { << >> }

NoTwoShareName(rows) == \A r, q \in rows : r.name = q.name => r = q

\* the rows before stay, every name has one row afterwards, and the rows
\* added are rows of these names or of the blank names of the list
ResolvedByName(rows, after, names, blanks) ==
  /\ rows \subseteq after
  /\ \A n \in names : Cardinality({ r \in after : r.name = n }) = 1
  /\ \A r \in after \ rows : r.name \in names \cup blanks
  /\ Cardinality(after \ rows) <= Cardinality((names \cup blanks) \ { r.name : r \in rows })

Optional(name) == IF name = << >> THEN { } ELSE { name }

\* the request succeeds with its series, category and tags resolved
RequestResolved(r, tagNames) ==
  /\ result'.status = 200
  /\ ResolvedByName(db.series, db'.series, Optional(r.series), { })
  /\ ResolvedByName(db.categories, db'.categories, Optional(r.category), { })
  /\ ResolvedByName(db.tags, db'.tags, tagNames, Range(r.tags) \ tagNames)

\* C31: Series, Category and Tag are found or created by exact name: an
\* import or a metadata update that names an existing entity reuses its row,
\* one that names a new entity creates exactly one row, and for any tag
\* list, one that repeats a new name included, the operation succeeds with
\* one Tag row per distinct name; no two Series, no two Categories and no
\* two Tags ever share a name.
C31_FoundOrCreatedByName ==
  /\ [](NoTwoShareName(db.series) /\ NoTwoShareName(db.categories) /\ NoTwoShareName(db.tags))
  /\ [][ /\ \A id \in 1..MaxStagedId, r \in TagRequests :
              HasId(db.staged, id) /\ import_comic(id, r, TRUE, TRUE)
                => RequestResolved(r, NamedByImport(r.tags))
         /\ \A id \in 1..MaxGalleryId, r \in TagRequests :
              HasId(db.galleries, id) /\ update_gallery_metadata(id, r, TRUE)
                => RequestResolved(r, NamedByUpdate(r.tags))
         /\ \A id \in 1..MaxSeriesId, t \in TagLists :
              HasId(db.series, id) /\ update_series_metadata(id, TagPayload(t), { })
                => /\ result'.status = 200
                   /\ ResolvedByName(db.tags, db'.tags, NamedByUpdate(t), { }) ]_vars

\* a blank name: empty or whitespace only
BlankName(n) == Strip(n) = << >>

BlankTagIds(b) == { t.id : t \in { t \in b.tags : BlankName(t.name) } }

\* C32: blank tag strings in the metadata of an import or of a gallery or
\* series update are skipped: no Tag row ever has an empty or a
\* whitespace-only name, and no gallery and no series is attached to such a
\* tag.
C32_NoBlankTag ==
  /\ BlankTagIds(db) = { }
  /\ \A g \in db.galleries : Range(g.tags) \cap BlankTagIds(db) = { }
  /\ \A s \in db.series : Range(s.tags) \cap BlankTagIds(db) = { }

(***************************************************************************)
(* main.py: add_category and delete_category.  A category_id of None is 0. *)
(***************************************************************************)
\* POST /api/categories
add_category(name) ==
  IF Strip(name) = << >>
  THEN /\ result' = Response("add_category", 400, "HTTPException", "Empty name", << >>)
       /\ UNCHANGED << dataDirAbs, watchdog, clock, inflight, fs, db >>
  ELSE IF HasName(db.categories, Strip(name))
  THEN /\ result' = Response("add_category", 400, "HTTPException", "Category exists", << >>)
       /\ UNCHANGED << dataDirAbs, watchdog, clock, inflight, fs, db >>
  ELSE /\ db' = [ db EXCEPT !.categories = @ \cup { NamedRow(NextId(@), Strip(name)) } ]
       /\ result' = Response("add_category", 200, "", "", << "created" >>)
       /\ UNCHANGED << dataDirAbs, watchdog, clock, inflight, fs >>

\* cat.galleries and series_in_cat
InCategory(rows, cat_id) == { r \in rows : r.category_id = cat_id }

Detached(rows, cat_id) ==
  { IF r.category_id = cat_id THEN [ r EXCEPT !.category_id = 0 ] ELSE r : r \in rows }

\* a delete that takes the galleries and the series of the category with it
DeleteCategoryCascades(cat_id, force) ==
  /\ HasId(db.categories, cat_id)
  /\ db' = [ db EXCEPT !.galleries = @ \ InCategory(@, cat_id),
                       !.series = @ \ InCategory(@, cat_id),
                       !.categories = @ \ { ById(@, cat_id) } ]
  /\ result' = Response("delete_category", 200, "", "",
                        << "deleted", Cardinality(InCategory(db.galleries, cat_id))
                                      + Cardinality(InCategory(db.series, cat_id)) >>)
  /\ UNCHANGED << dataDirAbs, watchdog, clock, inflight, fs >>

\* DELETE /api/categories/{cat_id}?force=; the value is the status returned
\* and total_items
delete_category(cat_id, force) ==
  IF ~HasId(db.categories, cat_id)
  THEN /\ result' = Response("delete_category", 404, "HTTPException", "Not found", << >>)
       /\ UNCHANGED << dataDirAbs, watchdog, clock, inflight, fs, db >>
  ELSE
    LET cat == ById(db.categories, cat_id)
        series_in_cat == InCategory(db.series, cat.id)
        total_items == Cardinality(InCategory(db.galleries, cat.id)) + Cardinality(series_in_cat)
    IN  IF total_items > 0 /\ ~force
        THEN /\ result' = Response("delete_category", 200, "", "", << "conflict", total_items >>)
             /\ UNCHANGED << dataDirAbs, watchdog, clock, inflight, fs, db >>
        ELSE /\ db' = [ db EXCEPT !.galleries = Detached(@, cat.id),
                                  !.series = Detached(@, cat.id),
                                  !.categories = @ \ { cat } ]
             /\ result' = Response("delete_category", 200, "", "", << "deleted", total_items >>)
             /\ UNCHANGED << dataDirAbs, watchdog, clock, inflight, fs >>

(***************************************************************************)
(* SpecCategory: categories added, assigned and deleted on a library of    *)
(* two galleries and one series whose rows the start finds in manga.db.    *)
(***************************************************************************)
CategoryIds == { 1, 2, 3 }
CategoryNames == { << "c" >>, << "k" >>, << " ", "k" >> }

\* a stored gallery of artist a outside any series, with its archive
StoredGallery(id, filename, category_id) ==
  GalleryRow(id, filename, PathJoin(PathJoin(LIBRARY_DIR, << "a" >>), filename),
             << "a" >>, 0, category_id, << >>)

\* the rows of an earlier run: category 1 (c), a series and two galleries
\* that belong to it or to none
InitCategory ==
  /\ dataDirAbs = FALSE
  /\ \E c1, c2, c3 \in { 0, 1 } :
       /\ db = [ staged |-> { },
                 galleries |-> { StoredGallery(1, F_zip, c1), StoredGallery(2, G_cbz, c2) },
                 series |-> { [ SeriesRow(1, << "s" >>) EXCEPT !.category_id = c3 ] },
                 categories |-> { NamedRow(1, << "c" >>) }, tags |-> { }, settings |-> { } ]
  /\ fs = [ files |-> [ q \in { PathJoin(PathJoin(LIBRARY_DIR, << "a" >>), F_zip),
                                PathJoin(PathJoin(LIBRARY_DIR, << "a" >>), G_cbz) } |-> 1 ],
            dirs |-> { << >>, DATA_DIR, INPUT_DIR, LIBRARY_DIR, THUMBNAIL_DIR, LOG_DIR, BACKUP_DIR,
                       PathJoin(LIBRARY_DIR, << "a" >>) },
            thumbs |-> { 1, 2 } ]
  /\ result = Response("start", 200, "", "", << >>)
  /\ inflight = [ w \in Workers |-> None ]
  /\ clock = StartTime
  /\ watchdog = WatchdogStart

AddCategory == \E name \in CategoryNames \cup { << " " >> } : add_category(name)

AssignCategory ==
  \E id \in { 1, 2 }, name \in { << >>, << "c" >>, << "k" >> } :
    /\ update_gallery_metadata(id, Request(<< "a" >>, << >>, TRUE, name, << >>), TRUE)
    /\ \A c \in db'.categories : c.id \in CategoryIds

DeleteCategory == \E cat_id \in CategoryIds, force \in BOOLEAN : delete_category(cat_id, force)

NextCategory ==
  \/ AddCategory
  \/ AssignCategory
  \/ DeleteCategory

SpecCategory == InitCategory /\ [][NextCategory]_vars

\* the rows of ids and the rows that lie outside the category
Ids(rows) == { r.id : r \in rows }
Outside(rows, cat_id) == { r \in rows : r.category_id # cat_id }

\* the rows are those before, the ones of the category with no category now
OnlyReferenceNulled(rows, after, cat_id) ==
  /\ Ids(after) = Ids(rows)
  /\ Outside(rows, cat_id) \subseteq after
  /\ \A r \in rows : r.category_id = cat_id => [ r EXCEPT !.category_id = 0 ] \in after

\* C33: deleting a category never deletes a Gallery or a Series: when the
\* category is referenced and force is false the call reports a conflict
\* and changes nothing; otherwise every gallery and series that referenced
\* it has its category reference set to null and only the Category row is
\* removed.
C33_DeleteCategoryDetaches ==
  [][ result'.op = "delete_category" =>
        \A cat_id \in CategoryIds, force \in BOOLEAN :
          HasId(db.categories, cat_id) /\ delete_category(cat_id, force) =>
            LET referenced == \E r \in db.galleries \cup db.series : r.category_id = cat_id
            IN  /\ Ids(db'.galleries) = Ids(db.galleries)
                /\ Ids(db'.series) = Ids(db.series)
                /\ fs' = fs
                /\ IF referenced /\ ~force
                   THEN result'.value[1] = "conflict" /\ db' = db
                   ELSE /\ result'.value[1] = "deleted"
                        /\ OnlyReferenceNulled(db.galleries, db'.galleries, cat_id)
                        /\ OnlyReferenceNulled(db.series, db'.series, cat_id)
                        /\ db'.categories = db.categories \ { ById(db.categories, cat_id) }
                        /\ db'.tags = db.tags /\ db'.staged = db.staged
                        /\ db'.settings = db.settings ]_vars

\* a forced delete has just detached a gallery and the series
C33_Witness ==
  /\ result.op = "delete_category"
  /\ result.value = << "deleted", 2 >>
  /\ \E g \in db.galleries : g.category_id = 0
  /\ \A s \in db.series : s.category_id = 0
  /\ \E g \in db.galleries : g.category_id # 0

(***************************************************************************)
(* SpecTidy: two stored galleries relocated between artist and series      *)
(* folders, the artist ".." among them, by moves that succeed or fail.     *)
(***************************************************************************)
TidyRequests ==
  { Request(<< "a" >>, << >>, TRUE, << >>, << >>),
    Request(<< "a" >>, << "s" >>, TRUE, << >>, << >>),
    Request(DotDot, << >>, TRUE, << >>, << >>) }

\* a stored gallery of artist a in series 1, at the place the mover gives it
\* or at the place the importer gave it
TidyGallery(id, filename, folder) ==
  GalleryRow(id, filename, PathJoin(folder, filename), << "a" >>, 1, 0, << >>)

\* DATA_DIR is absolute: with the relative default the cleanup removes nothing
InitTidy ==
  /\ dataDirAbs = TRUE
  /\ \E folder \in { ArtistDir, SeriesDir } :
       /\ db = [ staged |-> { },
                 galleries |-> { TidyGallery(1, F_zip, SeriesDir), TidyGallery(2, G_cbz, folder) },
                 series |-> { SeriesRow(1, << "s" >>) },
                 categories |-> { }, tags |-> { }, settings |-> { } ]
       /\ fs = [ files |-> [ q \in { PathJoin(SeriesDir, F_zip), PathJoin(folder, G_cbz) } |-> 1 ],
                 dirs |-> { << >>, DATA_DIR, INPUT_DIR, LIBRARY_DIR, THUMBNAIL_DIR, LOG_DIR,
                            BACKUP_DIR, ArtistDir, SeriesDir },
                 thumbs |-> { 1, 2 } ]
  /\ result = Response("start", 200, "", "", << >>)
  /\ inflight = [ w \in Workers |-> None ]
  /\ clock = StartTime
  /\ watchdog = WatchdogStart

Relocates ==
  \E id \in { 1, 2 }, r \in TidyRequests, moveOk \in BOOLEAN :
    update_gallery_metadata(id, r, moveOk)

RenamesShelf ==
  \E refused \in { { }, { 1 } } : update_series_metadata(1, Payload(TRUE, << "t" >>), refused)

NextTidy ==
  \/ Relocates
  \/ RenamesShelf

SpecTidy == InitTidy /\ [][NextTidy]_vars

\* the files a step takes from their place and the folders it removes
MovedAway == DOMAIN fs.files \ DOMAIN fs'.files
RemovedDirs == fs.dirs \ fs'.dirs

\* os.listdir(dir) on the disk d
Entries(d, dir) ==
  { q \in DOMAIN d.files : Dirname(q) = dir } \cup { q \in d.dirs : q # << >> /\ Dirname(q) = dir }

\* C34: after a successful move, cleanup removes the old file's immediate
\* parent directory only if it is empty, then that directory's parent only
\* if it is also empty, and never a third level; a directory that still
\* contains any entry is never removed.
C34_CleanupTwoEmptyLevels ==
  [][ \A dir \in RemovedDirs :
        /\ \E p \in MovedAway : dir \in { Dirname(p), Dirname(Dirname(p)) }
        /\ Entries(fs', dir) = { }
        /\ Entries(fs, dir) \subseteq MovedAway \cup RemovedDirs
        /\ (\A p \in MovedAway : dir # Dirname(p))
             => \E p \in MovedAway : dir = Dirname(Dirname(p)) /\ Dirname(p) \in RemovedDirs ]_vars

\* a move out of the library has just emptied the series folder and the
\* artist folder, both are gone, and the library folder, empty too, stays
C34_Witness ==
  /\ result.op = "update_gallery"
  /\ result.status = 200
  /\ SeriesDir \notin fs.dirs
  /\ ArtistDir \notin fs.dirs
  /\ Entries(fs, LIBRARY_DIR) = { }
  /\ LIBRARY_DIR \in fs.dirs
  /\ Cardinality(DOMAIN fs.files) = 2

\* C35: the cleanup of empty directories stops at the library root: after
\* any sequence of relocations and gallery deletions, one that removes the
\* last archive of the library included, the library root directory and
\* the data root directory still exist.
C35_RootsStay == LIBRARY_DIR \in fs.dirs /\ DATA_DIR \in fs.dirs

(***************************************************************************)
(* main.py: update_progress and mark_gallery_read.                         *)
(***************************************************************************)
\* POST /api/progress/{gallery_id}/{page}; page is any int
update_progress(gallery_id, page) ==
  IF ~HasId(db.galleries, gallery_id)
  THEN /\ result' = Response("progress", 404, "HTTPException", "Not found", << >>)
       /\ UNCHANGED << dataDirAbs, watchdog, clock, inflight, fs, db >>
  ELSE LET g == ById(db.galleries, gallery_id)
           status == IF g.pages_total # 0 /\ page >= g.pages_total THEN "Completed"
                     ELSE IF page > 1 THEN "Reading"
                     ELSE "New"
       IN  /\ db' = [ db EXCEPT !.galleries =
                        WithRow(@, g, [ g EXCEPT !.pages_read = page, !.status = status ]) ]
           /\ result' = Response("progress", 200, "", "", << "updated" >>)
           /\ UNCHANGED << dataDirAbs, watchdog, clock, inflight, fs >>

\* POST /api/gallery/{gallery_id}/mark-read
mark_gallery_read(gallery_id) ==
  IF ~HasId(db.galleries, gallery_id)
  THEN /\ result' = Response("mark_read", 404, "HTTPException", "Gallery not found", << >>)
       /\ UNCHANGED << dataDirAbs, watchdog, clock, inflight, fs, db >>
  ELSE LET g == ById(db.galleries, gallery_id)
       IN  /\ db' = [ db EXCEPT !.galleries =
                        WithRow(@, g, [ g EXCEPT !.status = "Completed",
                                                 !.pages_read = IF g.pages_total # 0
                                                                THEN g.pages_total ELSE @ ]) ]
           /\ result' = Response("mark_read", 200, "", "", << "success" >>)
           /\ UNCHANGED << dataDirAbs, watchdog, clock, inflight, fs >>

(***************************************************************************)
(* SpecProgress: archives of every kind imported, then read, marked read   *)
(* and given a page of progress, pages below 0 and beyond the last among   *)
(* them.                                                                   *)
(***************************************************************************)
ProgressPages == (0 - 1)..(MaxPage + 1)

UpdatesProgress ==
  \E id \in 1..MaxGalleryId, page \in ProgressPages : update_progress(id, page)

MarksRead == \E id \in 1..MaxGalleryId : mark_gallery_read(id)

OpensReader == \E id \in 1..MaxGalleryId : open_reader(id)

NextProgress ==
  \/ UploadArchive
  \/ Scan
  \/ ImportArchive
  \/ UpdatesProgress
  \/ MarksRead
  \/ OpensReader

SpecProgress == InitDefault /\ [][NextProgress]_vars

\* C36: in every state reachable through import, update of the progress
\* (with any integer page), mark-read and opening the reader, every Gallery
\* has a status among New, Reading and Completed, pages_read >= 0 and
\* pages_total >= 0.
C36_ProgressInRange ==
  \A g \in db.galleries :
    /\ g.status \in { "New", "Reading", "Completed" }
    /\ g.pages_read >= 0
    /\ g.pages_total >= 0

\* the file of gallery g, where the importer has just put it
FreshlyImported(g, r) ==
  /\ g.artist = r.artist
  /\ SeriesNameOf(db, g) = r.series
  /\ g.path = ImportDestPath(r, PathJoin(INPUT_DIR, g.filename))
  /\ FileAt(fs, g.path)

\* C37: the importer and the mover resolve the same metadata to the same
\* path: for every artist and optional series name the destination of the
\* import equals the target of the relocation, so an update of a freshly
\* imported gallery with unchanged artist and series moves no file.
C37_ImporterAndMoverAgree ==
  [][ result'.op = "update_gallery" =>
        \A id \in 1..MaxGalleryId, r \in CategoryRequests, moveOk \in BOOLEAN :
          (/\ HasId(db.galleries, id)
           /\ FreshlyImported(ById(db.galleries, id), r)
           /\ update_gallery_metadata(id, r, moveOk))
            => /\ ById(db.galleries, id).path
                   = PathJoin(MoveTargetDir(r.artist, r.series), ById(db.galleries, id).filename)
               /\ fs'.files = fs.files ]_vars

\* the directories of the library, the library root included
LibraryTree(d) == { q \in d.dirs : IsPrefix(LIBRARY_DIR, q) }

\* C38: an import that fails, and a relocation that does not move the file
\* (the source is missing or the move raises), leave the directory tree of
\* the library exactly as it was before the call: no directory is created
\* and none is removed.
C38_FailureLeavesTree ==
  [][ /\ (result'.op = "import" /\ result'.status # 200) => LibraryTree(fs') = LibraryTree(fs)
      /\ (result'.op \in { "update_gallery", "update_series" } /\ fs'.files = fs.files)
           => LibraryTree(fs') = LibraryTree(fs) ]_vars

(***************************************************************************)
(* wifi_watchdog.py: check_connection, switch_to_hotspot and main.  A      *)
(* state of the watchdog is taken at the time.sleep that ends a pass of    *)
(* the loop.                                                               *)
(***************************************************************************)
MAX_FAILURES == 3

\* what `hostname -I` prints: nothing, a bare newline, an address
HostnameOutputs == { << >>, << " " >>, << "1", ".", "2", " " >> }

\* lines 23-45: False when the command cannot be run or prints no address
check_connection(stdout, runs) == runs /\ Strip(stdout) # << >>

\* lines 47-66: the exception of `nmcli con up` is caught; the value is
\* whether the hotspot came up
switch_to_hotspot(upOk) == upOk

\* a loop that keeps its count when the switch has failed
MainKeepsCountOnFailedSwitch(w, stdout, runs, upOk) ==
  IF check_connection(stdout, runs)
  THEN [ fail_count |-> 0,
         passes |-> Append(w.passes, [ connected |-> TRUE, switched |-> FALSE, up |-> FALSE ]) ]
  ELSE LET counted == w.fail_count + 1
           limit == counted >= MAX_FAILURES
           up == limit /\ switch_to_hotspot(upOk)
       IN  [ fail_count |-> IF up THEN 0 ELSE counted,
             passes |-> Append(w.passes, [ connected |-> FALSE, switched |-> limit, up |-> up ]) ]

\* one pass of the loop of main, lines 76-90
main(w, stdout, runs, upOk) ==
  IF check_connection(stdout, runs)
  THEN [ fail_count |-> 0,
         passes |-> Append(w.passes, [ connected |-> TRUE, switched |-> FALSE, up |-> FALSE ]) ]
  ELSE LET counted == w.fail_count + 1
           limit == counted >= MAX_FAILURES
           up == limit /\ switch_to_hotspot(upOk)
       IN  [ fail_count |-> IF limit THEN 0 ELSE counted,
             passes |-> Append(w.passes, [ connected |-> FALSE, switched |-> limit, up |-> up ]) ]

(***************************************************************************)
(* SpecWatchdog: the watchdog alone, on a network that comes and goes and  *)
(* a hotspot that does not always come up.                                 *)
(***************************************************************************)
MaxPasses == 7

WatchdogPass ==
  \E stdout \in HostnameOutputs, runs \in BOOLEAN, upOk \in BOOLEAN :
    /\ Len(watchdog.passes) < MaxPasses
    /\ watchdog' = main(watchdog, stdout, runs, upOk)
    /\ UNCHANGED << dataDirAbs, fs, db, result, inflight, clock >>

NextWatchdog == WatchdogPass

SpecWatchdog == InitDefault /\ [][NextWatchdog]_vars

\* the failed checks in a row that end with pass i, counted from the last
\* successful check or the last switch attempt
RECURSIVE FailedInARow(_, _)
FailedInARow(passes, i) ==
  IF i = 0 \/ passes[i].connected THEN 0
  ELSE IF i = 1 \/ passes[i - 1].switched THEN 1
  ELSE FailedInARow(passes, i - 1) + 1

\* C39: the watchdog switches to hotspot mode exactly when MAX_FAILURES
\* connection checks in a row have failed; a successful check resets the
\* failure counter to 0; the counter is reset to 0 right after a switch
\* attempt, whether the switch succeeded or not; at every sleep the counter
\* is between 0 and MAX_FAILURES - 1.
C39_SwitchAfterThreeFailures ==
  LET passes == watchdog.passes
      n == Len(passes)
  IN  /\ \A i \in 1..n : passes[i].switched <=> FailedInARow(passes, i) = MAX_FAILURES
      /\ \A i \in 1..n : FailedInARow(passes, i) <= MAX_FAILURES
      /\ (n > 0 /\ passes[n].connected) => watchdog.fail_count = 0
      /\ (n > 0 /\ passes[n].switched) => watchdog.fail_count = 0
      /\ watchdog.fail_count \in 0..(MAX_FAILURES - 1)
      /\ (n > 0 /\ ~passes[n].switched) => watchdog.fail_count = FailedInARow(passes, n)

\* the third failed check in a row has just led to a switch that failed,
\* after an earlier run of two failures that a successful check had ended
C39_Witness ==
  LET passes == watchdog.passes
      n == Len(passes)
  IN  /\ n >= 6
      /\ passes[n].switched /\ ~passes[n].up
      /\ watchdog.fail_count = 0
      /\ \E i \in 3..(n - 3) :
           passes[i].connected /\ ~passes[i - 1].connected /\ ~passes[i - 2].connected
====
